---- MODULE Spec2Model ----
(***************************************************************************)
(* Model of the security layer of the JSX prop analyzer:                   *)
(*   src/security/resource-limiter.js   ResourceLimiter (usage ledger)     *)
(*   src/security/sandboxed-parser.js   SandboxedParser.parseFile          *)
(*   src/security/path-validator.js     PathValidator.validatePath         *)
(*                                                                         *)
(* Three specifications share the module:                                  *)
(*   Spec      the limiter's operations interleaved with parseFile calls   *)
(*   SpecAST   validateAST applied to bounded object graphs                *)
(*   SpecPath  validatePath applied to bounded paths over a small          *)
(*             filesystem with symbolic links                              *)
(***************************************************************************)
EXTENDS Integers, Sequences, FiniteSets, TLC

VARIABLES
    \* ---- ResourceLimiter ledger (resource-limiter.js:48-55)
    currentOperations,      \* Set of active operation identifiers
    operationStartTimes,    \* Map: operation identifier -> start time
    totalFilesProcessed,
    totalSizeProcessed,
    directoriesScanned,
    memoryCheckTimer,       \* TRUE while the setInterval handle is set
    \* ---- runtime
    now,                    \* performance.now()
    calls,                  \* one record per parseFile invocation slot
    \* ---- observation of the most recent API call and of admissions
    lastCall,
    admissions,
    \* ---- history of the throughput counters (SpecLedger)
    fileRecords,            \* recordFileProcessed calls since the counters were 0
    discarded,              \* the counters as the latest reset() found them
    \* ---- validatePaths argument and result (SpecBatch)
    pathsInput,
    pathsResult,
    \* ---- InputSanitizer instance, validator argument and results (SpecSanitizer)
    sanitizer,              \* the options the instance was constructed with
    sanInput,
    sanResult,
    sanAgain,               \* the same validator applied to its own output
    \* ---- validateAndSanitize argument and result (SpecContext)
    params,
    bagResult,
    \* ---- createScoped argument and the limiter it returned (SpecScoped)
    scopedLimits,
    scoped,
    \* ---- validateAST inputs and result (SpecAST)
    astInput,
    astResult,
    \* ---- validatePath inputs and result (SpecPath)
    fsLinks,
    fsFiles,
    pathInput,
    pathResult

ghostVars   == <<lastCall, admissions>>
limiterVars == <<currentOperations, operationStartTimes, totalFilesProcessed,
                 totalSizeProcessed, directoriesScanned, memoryCheckTimer>>
ledgerGhost == <<fileRecords, discarded>>
batchVars   == <<pathsInput, pathsResult>>
sanVars     == <<sanitizer, sanInput, sanResult, sanAgain>>
scopedVars  == <<scopedLimits, scoped>>
restVars    == <<sanVars, params, scopedVars>>
auxVars     == <<ledgerGhost, batchVars, restVars, bagResult>>
astVars     == <<astInput, astResult>>
pathVars    == <<fsLinks, fsFiles, pathInput, pathResult>>
vars == <<currentOperations, operationStartTimes, totalFilesProcessed,
          totalSizeProcessed, directoriesScanned, memoryCheckTimer, now, calls,
          lastCall, admissions, fileRecords, discarded, pathsInput, pathsResult,
          sanitizer, sanInput, sanResult, sanAgain, params, bagResult,
          scopedLimits, scoped,
          astInput, astResult,
          fsLinks, fsFiles, pathInput, pathResult>>

----------------------------------------------------------------------------
(* Bounds of the model.  The ceilings are constructor options of the       *)
(* limiter and of the parser; the model runs them at small values.         *)

maxConcurrentOperations == 2
maxFileCount == 2
maxFileSize == 1
maxTotalFileSize == 2
maxASTDepth == 1
maxASTNodes == 3
parseTimeout == 1
NumCalls == 2
MaxSize == 2
MaxFiles == 3
NumSupplied == 3
maxDirectoryDepth == 1
maxDirectoriesScanned == 1
MaxDirs == 2
maxProcessingTime == 1
MaxNow == 3
maxMemoryUsage == 1
MaxHeapUsed == 2

Calls == 1..NumCalls

----------------------------------------------------------------------------
(* Errors.  ResourceLimitError(message, code, limit, current) and          *)
(* ParserError(message, code, filePath, originalError).                    *)

NoError == [name |-> "none", code |-> "none", limit |-> -1, current |-> -1,
            cause |-> "none"]

ResourceLimitError(code, limit, current) ==
    [name |-> "ResourceLimitError", code |-> code, limit |-> limit,
     current |-> current, cause |-> "none"]

ParserError(code, originalError) ==
    [name |-> "ParserError", code |-> code, limit |-> -1, current |-> -1,
     cause |-> originalError.code]

----------------------------------------------------------------------------
(* Operation identifiers.  A generated identifier is                      *)
(* op_<Date.now()>_<random>, distinct from every identifier in use.  The  *)
(* model gives each parseFile call slot an identifier of its own (a slot  *)
(* is reused only after its call has completed) and draws the identifier  *)
(* of a direct startOperation() as the least generated one not active.    *)

GenIds      == {<<"op", n>> : n \in 1..(maxConcurrentOperations + 1)}
CallId(c)   == <<"call", c>>
CallIds     == {CallId(c) : c \in Calls}
SuppliedIds == {<<"id", n>> : n \in 1..NumSupplied}
NullId      == <<"null", 0>>
AllIds      == GenIds \cup CallIds \cup SuppliedIds

FreshId(L) ==
    LET free == {i \in GenIds : i \notin L.currentOperations}
    IN  IF free = {} THEN <<"op", 0>>
        ELSE CHOOSE i \in free : \A j \in free : i[2] <= j[2]

----------------------------------------------------------------------------
(* The usage ledger as a value, so that parseFile can thread it through    *)
(* the limiter calls it makes within one synchronous run.                  *)

Ledger ==
    [currentOperations   |-> currentOperations,
     operationStartTimes |-> operationStartTimes,
     totalFilesProcessed |-> totalFilesProcessed,
     totalSizeProcessed  |-> totalSizeProcessed,
     directoriesScanned  |-> directoriesScanned]

MapSet(m, k, v) == [i \in (DOMAIN m) \cup {k} |-> IF i = k THEN v ELSE m[i]]
MapDelete(m, k) == [i \in (DOMAIN m) \ {k} |-> m[i]]
EmptyMap        == [i \in {} |-> 0]

(* startOperation(operationId = null): generate an identifier when none is *)
(* supplied (generated is the identifier that would be generated), refuse  *)
(* when the active set has reached the ceiling, otherwise record the       *)
(* identifier and its start time.                                          *)
startOperation_noCeiling(L, operationId, generated, t) ==
    LET id == IF operationId = NullId THEN generated ELSE operationId
    IN  [ledger |-> [L EXCEPT !.currentOperations   = @ \cup {id},
                              !.operationStartTimes = MapSet(@, id, t)],
         err |-> NoError,
         id  |-> id,
         emitted |-> "operationStarted"]

startOperation_recordsRefused(L, operationId, generated, t) ==
    LET id == IF operationId = NullId THEN generated ELSE operationId
    IN  IF Cardinality(L.currentOperations) >= maxConcurrentOperations
        THEN [ledger |-> [L EXCEPT !.operationStartTimes = MapSet(@, id, t)],
              err |-> ResourceLimitError("TOO_MANY_OPERATIONS",
                          maxConcurrentOperations,
                          Cardinality(L.currentOperations)),
              id  |-> id,
              emitted |-> "none"]
        ELSE [ledger |-> [L EXCEPT !.currentOperations   = @ \cup {id},
                                   !.operationStartTimes = MapSet(@, id, t)],
              err |-> NoError,
              id  |-> id,
              emitted |-> "operationStarted"]

startOperation(L, operationId, generated, t) ==
    LET id == IF operationId = NullId THEN generated ELSE operationId
    IN  IF Cardinality(L.currentOperations) >= maxConcurrentOperations
        THEN [ledger |-> L,
              err |-> ResourceLimitError("TOO_MANY_OPERATIONS",
                          maxConcurrentOperations,
                          Cardinality(L.currentOperations)),
              id  |-> id,
              emitted |-> "none"]
        ELSE [ledger |-> [L EXCEPT !.currentOperations   = @ \cup {id},
                                   !.operationStartTimes = MapSet(@, id, t)],
              err |-> NoError,
              id  |-> id,
              emitted |-> "operationStarted"]

endOperation_keepsStartTime(L, operationId) ==
    [L EXCEPT !.currentOperations = @ \ {operationId}]

endOperation_freesSlot(L, operationId) ==
    IF operationId \in L.currentOperations \/ L.currentOperations = {}
    THEN [L EXCEPT !.currentOperations   = @ \ {operationId},
                   !.operationStartTimes = MapDelete(@, operationId)]
    ELSE LET other == CHOOSE id \in L.currentOperations : TRUE
         IN  [L EXCEPT !.currentOperations   = @ \ {other},
                       !.operationStartTimes = MapDelete(@, other)]

(* endOperation(operationId) *)
endOperation(L, operationId) ==
    [L EXCEPT !.currentOperations   = @ \ {operationId},
              !.operationStartTimes = MapDelete(@, operationId)]

recordFileProcessed_earlyCeiling(L, fileSize) ==
    LET L2 == [L EXCEPT !.totalFilesProcessed = @ + 1,
                        !.totalSizeProcessed  = @ + fileSize]
    IN  [ledger |-> L2,
         err |-> IF L2.totalFilesProcessed >= maxFileCount
                 THEN ResourceLimitError("TOO_MANY_FILES", maxFileCount,
                                         L2.totalFilesProcessed)
                 ELSE NoError]

recordFileProcessed_overwrite(L, fileSize) ==
    LET L2 == [L EXCEPT !.totalFilesProcessed = @ + 1,
                        !.totalSizeProcessed  = fileSize]
    IN  [ledger |-> L2,
         err |-> IF L2.totalFilesProcessed > maxFileCount
                 THEN ResourceLimitError("TOO_MANY_FILES", maxFileCount,
                                         L2.totalFilesProcessed)
                 ELSE NoError]

recordFileProcessed_checkFirst(L, fileSize) ==
    IF L.totalFilesProcessed + 1 > maxFileCount
    THEN [ledger |-> L,
          err |-> ResourceLimitError("TOO_MANY_FILES", maxFileCount,
                                     L.totalFilesProcessed + 1)]
    ELSE [ledger |-> [L EXCEPT !.totalFilesProcessed = @ + 1,
                               !.totalSizeProcessed  = @ + fileSize],
          err |-> NoError]

(* recordFileProcessed(filePath, fileSize): increment, then check. *)
recordFileProcessed(L, fileSize) ==
    LET L2 == [L EXCEPT !.totalFilesProcessed = @ + 1,
                        !.totalSizeProcessed  = @ + fileSize]
    IN  [ledger |-> L2,
         err |-> IF L2.totalFilesProcessed > maxFileCount
                 THEN ResourceLimitError("TOO_MANY_FILES", maxFileCount,
                                         L2.totalFilesProcessed)
                 ELSE NoError]

(* trackDirectoryTraversal(dirPath, depth): check the depth, increment,  *)
(* then check the count.                                                  *)
trackDirectoryTraversal(L, depth) ==
    IF depth > maxDirectoryDepth
    THEN [ledger |-> L,
          err |-> ResourceLimitError("DIRECTORY_TOO_DEEP", maxDirectoryDepth, depth)]
    ELSE LET L2 == [L EXCEPT !.directoriesScanned = @ + 1]
         IN  [ledger |-> L2,
              err |-> IF L2.directoriesScanned > maxDirectoriesScanned
                      THEN ResourceLimitError("TOO_MANY_DIRECTORIES",
                               maxDirectoriesScanned, L2.directoriesScanned)
                      ELSE NoError]

reset_clearsOperations(L) ==
    [L EXCEPT !.totalFilesProcessed = 0,
              !.totalSizeProcessed  = 0,
              !.directoriesScanned  = 0,
              !.currentOperations   = {},
              !.operationStartTimes = EmptyMap]

(* reset(): zero the throughput counters, keep the active operations. *)
reset(L) ==
    [L EXCEPT !.totalFilesProcessed = 0,
              !.totalSizeProcessed  = 0,
              !.directoriesScanned  = 0]

(* checkOperationTimeout(operationId) at time t: raise when the start   *)
(* time of the operation is set and lies more than maxProcessingTime back *)
checkOperationTimeout_release(L, operationId, t) ==
    IF /\ operationId \in DOMAIN L.operationStartTimes
       /\ L.operationStartTimes[operationId] # 0
       /\ t - L.operationStartTimes[operationId] > maxProcessingTime
    THEN [ledger |-> [L EXCEPT !.currentOperations   = @ \ {operationId},
                               !.operationStartTimes = MapDelete(@, operationId)],
          err |-> ResourceLimitError("OPERATION_TIMEOUT", maxProcessingTime,
                                     t - L.operationStartTimes[operationId])]
    ELSE [ledger |-> L, err |-> NoError]

checkOperationTimeout(L, operationId, t) ==
    IF /\ operationId \in DOMAIN L.operationStartTimes
       /\ L.operationStartTimes[operationId] # 0
       /\ t - L.operationStartTimes[operationId] > maxProcessingTime
    THEN [ledger |-> L,
          err |-> ResourceLimitError("OPERATION_TIMEOUT", maxProcessingTime,
                                     t - L.operationStartTimes[operationId])]
    ELSE [ledger |-> L, err |-> NoError]

memoryCheck_aborts(L, memUsage) ==
    IF memUsage > maxMemoryUsage
    THEN [ledger |-> [L EXCEPT !.currentOperations = {},
                               !.operationStartTimes = EmptyMap],
          emitted |-> "memoryLimitExceeded"]
    ELSE [ledger |-> L, emitted |-> "none"]

(* The callback of the memory sampler's interval on a heap of memUsage *)
memoryCheck(L, memUsage) ==
    [ledger  |-> L,
     emitted |-> IF memUsage > maxMemoryUsage
                 THEN "memoryLimitExceeded" ELSE "none"]

(* The ceilings: this.x of the limiter under study, and the defaults of  *)
(* the constructor.                                                       *)
CeilingNames ==
    {"maxFileSize", "maxTotalFileSize", "maxProcessingTime", "maxFileCount",
     "maxConcurrentOperations", "maxMemoryUsage", "maxASTDepth",
     "maxASTNodes", "maxDirectoryDepth", "maxDirectoriesScanned"}

Limits ==
    [maxFileSize |-> maxFileSize, maxTotalFileSize |-> maxTotalFileSize,
     maxProcessingTime |-> maxProcessingTime, maxFileCount |-> maxFileCount,
     maxConcurrentOperations |-> maxConcurrentOperations,
     maxMemoryUsage |-> maxMemoryUsage, maxASTDepth |-> maxASTDepth,
     maxASTNodes |-> maxASTNodes, maxDirectoryDepth |-> maxDirectoryDepth,
     maxDirectoriesScanned |-> maxDirectoriesScanned]

DefaultLimits ==
    [maxFileSize |-> 10 * 1024 * 1024, maxTotalFileSize |-> 100 * 1024 * 1024,
     maxProcessingTime |-> 30 * 1000, maxFileCount |-> 1000,
     maxConcurrentOperations |-> 5, maxMemoryUsage |-> 500 * 1024 * 1024,
     maxASTDepth |-> 50, maxASTNodes |-> 10000, maxDirectoryDepth |-> 20,
     maxDirectoriesScanned |-> 5000]

(* value || fallback on an option that may be absent: 0 is falsy *)
OrElse(options, name, fallback) ==
    IF name \in DOMAIN options /\ options[name] # 0
    THEN options[name] ELSE fallback

(* new ResourceLimiter(options): the ceilings, an empty ledger, and the   *)
(* sampler started                                                        *)
ResourceLimiter(options) ==
    [created |-> TRUE,
     limits  |-> [n \in CeilingNames |-> OrElse(options, n, DefaultLimits[n])],
     ledger  |-> [currentOperations   |-> {},
                  operationStartTimes |-> EmptyMap,
                  totalFilesProcessed |-> 0,
                  totalSizeProcessed  |-> 0,
                  directoriesScanned  |-> 0],
     memoryCheckTimer |-> TRUE]

NoScoped ==
    [created |-> FALSE,
     limits  |-> Limits,
     ledger  |-> [currentOperations   |-> {},
                  operationStartTimes |-> EmptyMap,
                  totalFilesProcessed |-> 0,
                  totalSizeProcessed  |-> 0,
                  directoriesScanned  |-> 0],
     memoryCheckTimer |-> FALSE]

(* createScoped(scopedLimits) on a limiter whose ceilings are limits *)
createScoped(limits, overrides) ==
    ResourceLimiter([n \in CeilingNames |-> OrElse(overrides, n, limits[n])])

(* startOperation and endOperation of a limiter held as a value *)
scopedStartOperation(child, operationId, generated, t) ==
    LET id == IF operationId = NullId THEN generated ELSE operationId
    IN  IF Cardinality(child.ledger.currentOperations)
               >= child.limits.maxConcurrentOperations
        THEN [child |-> child,
              err |-> ResourceLimitError("TOO_MANY_OPERATIONS",
                          child.limits.maxConcurrentOperations,
                          Cardinality(child.ledger.currentOperations)),
              id  |-> id,
              emitted |-> "none"]
        ELSE [child |-> [child EXCEPT
                            !.ledger.currentOperations   = @ \cup {id},
                            !.ledger.operationStartTimes = MapSet(@, id, t)],
              err |-> NoError,
              id  |-> id,
              emitted |-> "operationStarted"]

scopedEndOperation(child, operationId) ==
    [child EXCEPT !.ledger.currentOperations   = @ \ {operationId},
                  !.ledger.operationStartTimes = MapDelete(@, operationId)]

destroy_keepsStartTimes(L) ==
    [L EXCEPT !.currentOperations = {}]

(* destroy(): clear the active set and the start times. *)
destroy(L) ==
    [L EXCEPT !.currentOperations   = {},
              !.operationStartTimes = EmptyMap]

SetLedger(L) ==
    /\ currentOperations'   = L.currentOperations
    /\ operationStartTimes' = L.operationStartTimes
    /\ totalFilesProcessed' = L.totalFilesProcessed
    /\ totalSizeProcessed'  = L.totalSizeProcessed
    /\ directoriesScanned'  = L.directoriesScanned

----------------------------------------------------------------------------
(* validateAST.  An input is an object graph: node 1 is the argument,      *)
(* kids[n] are the object-valued members of n (direct values and array     *)
(* items, in iteration order) and typed[n] says whether n carries a truthy *)
(* 'type' field.  Graphs may share nodes and may contain cycles.           *)

MaxAstNodes == 3
AstNodes == 1..MaxAstNodes

RECURSIVE SetToSeq(_)
SetToSeq(S) ==
    IF S = {} THEN <<>>
    ELSE LET m == CHOOSE x \in S : \A y \in S : x <= y
         IN  <<m>> \o SetToSeq(S \ {m})

Graphs(nodes) ==
    {[typed |-> t, kids |-> k] :
        t \in {f \in [nodes -> BOOLEAN] : f[1]},
        k \in [nodes -> SUBSET nodes]}

WalkStart == [nodeCount |-> 1, err |-> NoError, traversed |-> 0]

RECURSIVE traverse(_, _, _, _)
RECURSIVE traverseKeys(_, _, _, _, _)

RECURSIVE traverseKeys_lateCeiling(_, _, _, _, _)
traverseKeys_lateCeiling(g, node, i, currentDepth, st) ==
    LET members == SetToSeq(g.kids[node])
    IN  IF st.err # NoError \/ i > Len(members) THEN st
        ELSE LET value == members[i]
             IN  IF g.typed[value]
                 THEN LET st1 == [st EXCEPT !.nodeCount = @ + 1]
                      IN  IF st1.nodeCount > maxASTNodes + 1
                          THEN [st1 EXCEPT !.err =
                                    ResourceLimitError("AST_TOO_COMPLEX",
                                        maxASTNodes, st1.nodeCount)]
                          ELSE traverseKeys_lateCeiling(g, node, i + 1, currentDepth,
                                   traverse(g, value, currentDepth + 1, st1))
                 ELSE traverseKeys_lateCeiling(g, node, i + 1, currentDepth, st)

(* the body of the for-in loop of traverse, from member i of node on *)
traverseKeys(g, node, i, currentDepth, st) ==
    LET members == SetToSeq(g.kids[node])
    IN  IF st.err # NoError \/ i > Len(members) THEN st
        ELSE LET value == members[i]
             IN  IF g.typed[value]
                 THEN LET st1 == [st EXCEPT !.nodeCount = @ + 1]
                      IN  IF st1.nodeCount > maxASTNodes
                          THEN [st1 EXCEPT !.err =
                                    ResourceLimitError("AST_TOO_COMPLEX",
                                        maxASTNodes, st1.nodeCount)]
                          ELSE traverseKeys(g, node, i + 1, currentDepth,
                                   traverse(g, value, currentDepth + 1, st1))
                 ELSE traverseKeys(g, node, i + 1, currentDepth, st)

traverse(g, node, currentDepth, st) ==
    traverseKeys(g, node, 1, currentDepth, [st EXCEPT !.traversed = @ + 1])

(* validateAST(ast, depth = 0) returns { nodeCount, maxDepth: depth } *)
validateAST(g, depth) ==
    IF depth > maxASTDepth
    THEN [nodeCount |-> 0, maxDepth |-> depth, traversed |-> 0,
          err |-> ResourceLimitError("AST_TOO_DEEP", maxASTDepth, depth)]
    ELSE LET st == traverse(g, 1, depth, WalkStart)
         IN  [nodeCount |-> st.nodeCount, maxDepth |-> depth,
              traversed |-> st.traversed, err |-> st.err]

NoAstResult == [called |-> FALSE, depth |-> 0, nodeCount |-> 0,
                maxDepth |-> 0, traversed |-> 0, err |-> NoError]

(* Structure of a graph, computed apart from the walk: the typed members  *)
(* of a node, the nodes the walk can reach, whether they form a tree, and *)
(* the nesting depth of the deepest of them (the argument has depth 0).   *)
TypedKids(g, n) == {k \in g.kids[n] : g.typed[k]}

RECURSIVE ReachFrom(_, _, _)
ReachFrom(g, seen, fuel) ==
    LET more == seen \cup UNION {TypedKids(g, n) : n \in seen}
    IN  IF fuel = 0 \/ more = seen THEN seen ELSE ReachFrom(g, more, fuel - 1)

Reach(g) == ReachFrom(g, {1}, Cardinality(DOMAIN g.typed))

RECURSIVE DepthFrom(_, _, _)
DepthFrom(g, n, fuel) ==
    IF fuel = 0 \/ TypedKids(g, n) = {} THEN 0
    ELSE LET ds == {1 + DepthFrom(g, k, fuel - 1) : k \in TypedKids(g, n)}
         IN  CHOOSE d \in ds : \A e \in ds : e <= d

IsCyclic(g) ==
    DepthFrom(g, 1, Cardinality(DOMAIN g.typed)) = Cardinality(DOMAIN g.typed)

IsTree(g) ==
    /\ ~IsCyclic(g)
    /\ \A k \in Reach(g) \ {1} :
          Cardinality({n \in Reach(g) : k \in TypedKids(g, n)}) = 1
    /\ \A n \in Reach(g) : 1 \notin TypedKids(g, n)

TreeDepth(g) == DepthFrom(g, 1, Cardinality(DOMAIN g.typed))
TreeSize(g)  == Cardinality(Reach(g))

----------------------------------------------------------------------------
(* SandboxedParser.parseFile.  A call runs synchronously up to each await: *)
(* the stat inside checkFileSize, the return of checkFileSize and the      *)
(* promise of parseWithTimeout.                                            *)


ChainAst(n) ==
    [typed |-> [i \in 1..n |-> TRUE],
     kids  |-> [i \in 1..n |-> IF i < n THEN {i + 1} ELSE {}]]

ParsedAsts == {1, maxASTNodes + 1}

(* what the underlying parser does with the text: the outcome of the      *)
(* first parse, whether a failure is classified as recoverable, the       *)
(* outcome of the permissive parse, and the time the parsing takes        *)
(* the parser returns at once, or only after the deadline has passed *)
Durations == {0, parseTimeout + 1}

ParseBehaviours ==
    {[first |-> "ok", recoverable |-> FALSE, second |-> "none", ast |-> a, dur |-> d] :
        a \in ParsedAsts, d \in Durations}
    \cup {[first |-> "throw", recoverable |-> FALSE, second |-> "none", ast |-> 0, dur |-> d] :
        d \in Durations}
    \cup {[first |-> "throw", recoverable |-> TRUE, second |-> "ok", ast |-> a, dur |-> d] :
        a \in ParsedAsts, d \in Durations}
    \cup {[first |-> "throw", recoverable |-> TRUE, second |-> "throw", ast |-> 0, dur |-> d] :
        d \in Durations}

NoPending == [err |-> NoError, ast |-> 0]

(* stages: the stages of parseFile the call has entered, in the order it *)
(* entered them; invocations: the outcome of each call of the parser;     *)
(* recoverable: what shouldRetryParsing said of the first failure.        *)
IdleCall ==
    [pc |-> "idle", codeLen |-> 0, text |-> "plain", pending |-> NoPending,
     parserCalls |-> 0, parseDuration |-> 0, timeoutArmed |-> FALSE,
     stages |-> <<>>, invocations |-> <<>>, recoverable |-> FALSE]

Entered(rec, stage) == [rec EXCEPT !.stages = Append(@, stage)]

(* checkFileSize(filePath): stat is the size reported by fs.promises.stat, *)
(* or -1 when stat fails.                                                  *)
checkFileSize(L, stat) ==
    IF stat < 0
    THEN ResourceLimitError("FILE_ACCESS_ERROR", -1, -1)
    ELSE IF stat > maxFileSize
    THEN ResourceLimitError("FILE_TOO_LARGE", maxFileSize, stat)
    ELSE IF L.totalSizeProcessed + stat > maxTotalFileSize
    THEN ResourceLimitError("TOTAL_SIZE_EXCEEDED", maxTotalFileSize,
                            L.totalSizeProcessed + stat)
    ELSE NoError

checkFileSizeLedger_reserves(L, stat) ==
    IF stat < 0 THEN L ELSE [L EXCEPT !.totalSizeProcessed = @ + stat]

(* the ledger when checkFileSize settles: it assigns no field *)
checkFileSizeLedger(L, stat) == L

dangerousPatternScan_blocks(text) ==
    IF text = "suspicious" THEN ParserError("DANGEROUS_PATTERN", NoError)
    ELSE NoError

(* the scan of the text for this.dangerousPatterns (eval(, require(,     *)
(* process. and the like): informational, it raises nothing              *)
dangerousPatternScan(text) == NoError

(* validateCodeSafety(code, filePath): the NUL and line-length guards,   *)
(* then the scan for suspicious constructs                                *)
validateCodeSafety(text) ==
    IF text = "nul" THEN ParserError("NULL_BYTES_DETECTED", NoError)
    ELSE IF text = "longLine" THEN ParserError("LINE_TOO_LONG", NoError)
    ELSE dangerousPatternScan(text)

(* this.maxParseAttempts of the parser under study: the constructor      *)
(* stores the option, and nothing reads it                                *)
maxParseAttempts == 1

(* shouldRetryParsing(error): the classification of the first failure *)
shouldRetryParsing(b) == b.recoverable

(* parseWithTimeout: the promise executor.  It arms the deadline timer,   *)
(* runs the parser synchronously and clears the timer before it settles   *)
(* the promise, on the success path and in the catch block.               *)
setTimeout == TRUE
clearTimeout(timeout) == FALSE

parseWithTimeout_retriesAll(b) ==
    LET timeout == setTimeout
    IN  IF b.first = "ok"
        THEN [pending |-> [err |-> NoError, ast |-> b.ast],
              parserCalls |-> 1, timeoutArmed |-> clearTimeout(timeout),
              invocations |-> <<"ok">>, recoverable |-> FALSE]
        ELSE IF b.second = "ok"
        THEN [pending |-> [err |-> NoError, ast |-> b.ast],
              parserCalls |-> 2, timeoutArmed |-> clearTimeout(timeout),
              invocations |-> <<"throw", "ok">>,
              recoverable |-> shouldRetryParsing(b)]
        ELSE [pending |-> [err |-> ParserError("PARSE_FAILED_RETRY",
                                [code |-> "SyntaxError"]), ast |-> 0],
              parserCalls |-> 2, timeoutArmed |-> clearTimeout(timeout),
              invocations |-> <<"throw", "throw">>,
              recoverable |-> shouldRetryParsing(b)]

parseWithTimeout(b) ==
    LET timeout == setTimeout
    IN  IF b.first = "ok"
        THEN [pending |-> [err |-> NoError, ast |-> b.ast],
              parserCalls |-> 1, timeoutArmed |-> clearTimeout(timeout),
              invocations |-> <<"ok">>, recoverable |-> FALSE]
        ELSE IF shouldRetryParsing(b)
        THEN IF b.second = "ok"
             THEN [pending |-> [err |-> NoError, ast |-> b.ast],
                   parserCalls |-> 2, timeoutArmed |-> clearTimeout(timeout),
                   invocations |-> <<"throw", "ok">>, recoverable |-> TRUE]
             ELSE [pending |-> [err |-> ParserError("PARSE_FAILED_RETRY",
                                     [code |-> "SyntaxError"]), ast |-> 0],
                   parserCalls |-> 2, timeoutArmed |-> clearTimeout(timeout),
                   invocations |-> <<"throw", "throw">>, recoverable |-> TRUE]
        ELSE [pending |-> [err |-> ParserError("PARSE_FAILED",
                                [code |-> "SyntaxError"]), ast |-> 0],
              parserCalls |-> 1, timeoutArmed |-> clearTimeout(timeout),
              invocations |-> <<"throw">>, recoverable |-> FALSE]

(* the catch block of parseFile *)
WrapError(error) ==
    IF error.name = "ResourceLimitError"
    THEN ParserError("RESOURCE_LIMIT_EXCEEDED", error)
    ELSE IF error.name = "ParserError" THEN error
    ELSE ParserError("PARSE_ERROR", error)

----------------------------------------------------------------------------
(* Observation: lastCall describes the call of the public API that the     *)
(* latest step made or completed, and how it ended.  A specification that  *)
(* starts with lastCall = Unobserved keeps it so.                          *)

Quiet == [op |-> "none", err |-> NoError, id |-> NullId, size |-> 0,
          wasActive |-> FALSE, event |-> "none",
          text |-> "plain", parserCalls |-> 0, parseDuration |-> 0,
          stages |-> <<>>, invocations |-> <<>>, recoverable |-> FALSE]

Unobserved == [Quiet EXCEPT !.op = "unobserved"]

Observe(call) ==
    lastCall' = IF lastCall = Unobserved THEN Unobserved ELSE call

Returned(op, id, size, err) ==
    Observe([Quiet EXCEPT !.op = op, !.id = id, !.size = size, !.err = err,
                       !.wasActive = id \in currentOperations])

Completed(c, rec, admitted, err) ==
    Observe([Quiet EXCEPT !.op = "parseFile",
                          !.id = IF admitted THEN CallId(c) ELSE NullId,
                          !.size = rec.codeLen, !.err = err, !.text = rec.text,
                          !.parserCalls = rec.parserCalls,
                          !.parseDuration = rec.parseDuration,
                          !.stages = rec.stages,
                          !.invocations = rec.invocations,
                          !.recoverable = rec.recoverable])

----------------------------------------------------------------------------
(* Direct calls of the limiter's API                                       *)

SuppliedInSpec == {<<"id", 1>>}

Emitted(op, id, size, err, event) ==
    Observe([Quiet EXCEPT !.op = op, !.id = id, !.size = size, !.err = err,
                       !.wasActive = id \in currentOperations,
                       !.event = event])

StartOperation(operationId) ==
    /\ LET r == startOperation(Ledger, operationId, FreshId(Ledger), now)
       IN  /\ SetLedger(r.ledger)
           /\ Emitted("startOperation", r.id, 0, r.err, r.emitted)
    /\ UNCHANGED <<memoryCheckTimer, now, calls, admissions, astVars, pathVars, auxVars>>

EndOperation(operationId) ==
    /\ SetLedger(endOperation(Ledger, operationId))
    /\ Emitted("endOperation", operationId, 0, NoError,
               IF operationId \in DOMAIN operationStartTimes
               THEN "operationEnded" ELSE "none")
    /\ UNCHANGED <<memoryCheckTimer, now, calls, admissions, astVars, pathVars, auxVars>>

RecordFileProcessed(fileSize) ==
    /\ totalFilesProcessed < MaxFiles
    /\ LET r == recordFileProcessed(Ledger, fileSize)
       IN  /\ SetLedger(r.ledger)
           /\ Returned("recordFileProcessed", NullId, fileSize, r.err)
    /\ UNCHANGED <<memoryCheckTimer, now, calls, admissions, astVars, pathVars, auxVars>>

Reset ==
    /\ SetLedger(reset(Ledger))
    /\ Returned("reset", NullId, 0, NoError)
    /\ UNCHANGED <<memoryCheckTimer, now, calls, admissions, astVars, pathVars, auxVars>>

(* stopMemoryMonitoring(): clearInterval and memoryCheckTimer = null *)
stopMemoryMonitoring(timer) == FALSE

(* destroy() also stops the memory sampler.  The observation counts the   *)
(* destroy() calls made in a row, up to 2.                                *)
Destroy ==
    /\ SetLedger(destroy(Ledger))
    /\ memoryCheckTimer' = stopMemoryMonitoring(memoryCheckTimer)
    /\ Returned("destroy", NullId,
                IF lastCall.op = "destroy" THEN 2 ELSE 1, NoError)
    /\ UNCHANGED <<now, calls, admissions, astVars, pathVars, auxVars>>

(* checkOperationTimeout(operationId) *)
CheckOperationTimeout(operationId) ==
    /\ LET r == checkOperationTimeout(Ledger, operationId, now)
       IN  /\ SetLedger(r.ledger)
           /\ Returned("checkOperationTimeout", operationId, 0, r.err)
    /\ UNCHANGED <<memoryCheckTimer, now, calls, admissions, astVars, pathVars, auxVars>>

(* checkFileSize(filePath) called directly, at its settlement *)
CheckFileSize(stat) ==
    /\ SetLedger(checkFileSizeLedger(Ledger, stat))
    /\ Returned("checkFileSize", NullId, stat, checkFileSize(Ledger, stat))
    /\ UNCHANGED <<memoryCheckTimer, now, calls, admissions, astVars, pathVars, auxVars>>

(* performance.now() advances *)
Tick ==
    /\ now < MaxNow
    /\ now' = now + 1
    /\ Observe(Quiet)
    /\ UNCHANGED <<limiterVars, calls, admissions, astVars, pathVars, auxVars>>

----------------------------------------------------------------------------
(* parseFile, one action per synchronous run.  A call runs up to an await; *)
(* checkFileSize suspends on fs.promises.stat, and the continuation of     *)
(* parseFile follows the settlement of checkFileSize in the same drain of  *)
(* the microtask queue.                                                    *)

Fail_noRelease(c, rec, L, error) ==
    /\ calls' = [calls EXCEPT ![c] = IdleCall]
    /\ SetLedger(L)
    /\ Completed(c, rec, TRUE, WrapError(error))

Fail_recordsFile(c, rec, L, error) ==
    /\ calls' = [calls EXCEPT ![c] = IdleCall]
    /\ SetLedger(endOperation(recordFileProcessed(L, rec.codeLen).ledger,
                              CallId(c)))
    /\ Completed(c, rec, TRUE, WrapError(error))

(* catch + finally: wrap the error, release the operation, reject *)
Fail(c, rec, L, error) ==
    /\ calls' = [calls EXCEPT ![c] = IdleCall]
    /\ SetLedger(endOperation(L, CallId(c)))
    /\ Completed(c, rec, TRUE, WrapError(error))

(* validateCodeSafety, getParserConfig and the executor of                *)
(* parseWithTimeout, up to the await of its promise                       *)
Body_parsesUnsafe(c, rec, L, b) ==
    LET p == parseWithTimeout(b)
    IN  /\ calls' = [calls EXCEPT ![c] =
                       [Entered(Entered(rec, "SafetyPrecheck"), "Parse")
                           EXCEPT !.pc = "parsed",
                                  !.pending = p.pending,
                                  !.parserCalls = p.parserCalls,
                                  !.parseDuration = b.dur,
                                  !.timeoutArmed = p.timeoutArmed,
                                  !.invocations = p.invocations,
                                  !.recoverable = p.recoverable]]
        /\ SetLedger(L)
        /\ Observe(Quiet)

Body(c, rec, L, b) ==
    LET unsafe == validateCodeSafety(rec.text)
        p      == parseWithTimeout(b)
    IN  IF unsafe # NoError
        THEN Fail(c, Entered(rec, "SafetyPrecheck"), L, unsafe)
        ELSE /\ calls' = [calls EXCEPT ![c] =
                            [Entered(Entered(rec, "SafetyPrecheck"), "Parse")
                                EXCEPT !.pc = "parsed",
                                       !.pending = p.pending,
                                       !.parserCalls = p.parserCalls,
                                       !.parseDuration = b.dur,
                                       !.timeoutArmed = p.timeoutArmed,
                                       !.invocations = p.invocations,
                                       !.recoverable = p.recoverable]]
             /\ SetLedger(L)
             /\ Observe(Quiet)

(* parseFile(filePath, code, options) up to its first await.  source is   *)
(* "disk" when options.inMemory === false or the file exists.             *)
ParseFileStart(c, source, codeLen, text, b) ==
    /\ calls[c].pc = "idle"
    /\ \A d \in Calls : d < c => calls[d].pc # "idle"
    /\ LET r   == startOperation(Ledger, NullId, CallId(c), now)
           adm == [IdleCall EXCEPT !.codeLen = codeLen, !.text = text,
                                   !.stages = <<"Admission">>]
           rec == Entered(adm, "SizeCheck")
       IN  IF r.err # NoError
           THEN \* startOperation is outside the try block: the error escapes
                /\ Completed(c, adm, FALSE, r.err)
                /\ UNCHANGED <<limiterVars, calls>>
           ELSE IF source = "disk"
           THEN /\ calls' = [calls EXCEPT ![c] =
                                [rec EXCEPT !.pc = "checkFileSize"]]
                /\ SetLedger(r.ledger)
                /\ Observe(Quiet)
           ELSE IF codeLen > maxFileSize
           THEN Fail(c, rec, r.ledger,
                     ResourceLimitError("CODE_TOO_LARGE", maxFileSize, codeLen))
           ELSE Body(c, rec, r.ledger, b)
    /\ UNCHANGED <<memoryCheckTimer, now, admissions, astVars, pathVars, auxVars>>

(* checkFileSize resumes after fs.promises.stat; parseFile continues *)
ParseFileAfterSize(c, stat, b) ==
    /\ calls[c].pc = "checkFileSize"
    /\ LET sizeError == checkFileSize(Ledger, stat)
           L         == checkFileSizeLedger(Ledger, stat)
       IN  IF sizeError # NoError
           THEN Fail(c, calls[c], L, sizeError)
           ELSE Body(c, calls[c], L, b)
    /\ UNCHANGED <<memoryCheckTimer, now, admissions, astVars, pathVars, auxVars>>

(* parseFile resumes after the await of parseWithTimeout: validateAST,   *)
(* recordFileProcessed, return; catch; finally                           *)
ParseFileAfterParse(c) ==
    /\ calls[c].pc = "parsed"
    /\ totalFilesProcessed < MaxFiles
    /\ LET rec      == calls[c]
           settled  == calls[c].pending
           astStats == validateAST(ChainAst(settled.ast), 0)
           recorded == recordFileProcessed(Ledger, rec.codeLen)
           validated == Entered(rec, "StructureValidate")
           counted   == Entered(validated, "RecordSuccess")
       IN  IF settled.err # NoError
           THEN Fail(c, rec, Ledger, settled.err)
           ELSE IF astStats.err # NoError
           THEN Fail(c, validated, Ledger, astStats.err)
           ELSE IF recorded.err # NoError
           THEN Fail(c, counted, recorded.ledger, recorded.err)
           ELSE /\ calls' = [calls EXCEPT ![c] = IdleCall]
                /\ SetLedger(endOperation(recorded.ledger, CallId(c)))
                /\ Completed(c, counted, TRUE, NoError)
    /\ UNCHANGED <<memoryCheckTimer, now, admissions, astVars, pathVars, auxVars>>

(* The timers phase of the event loop: the memory sampler's interval      *)
(* (which reads the heap size and may emit memoryLimitExceeded), or the   *)
(* deadline timer of a parseWithTimeout promise that is still armed; the  *)
(* deadline rejects the promise unless it is settled already.             *)
HeapSamples == maxMemoryUsage..MaxHeapUsed

TimerFires ==
    /\ \/ /\ memoryCheckTimer
          /\ \E memUsage \in HeapSamples :
                LET r == memoryCheck(Ledger, memUsage)
                IN  /\ SetLedger(r.ledger)
                    /\ Emitted("memoryCheck", NullId, memUsage, NoError,
                               r.emitted)
          /\ UNCHANGED <<memoryCheckTimer, calls>>
       \/ \E c \in Calls :
          /\ calls[c].timeoutArmed
          /\ UNCHANGED limiterVars
          /\ calls' = [calls EXCEPT ![c].timeoutArmed = FALSE,
                                    ![c].pending =
                                        IF calls[c].pc = "parsed" THEN @
                                        ELSE [err |-> ParserError("PARSE_TIMEOUT", NoError),
                                              ast |-> 0]]
          /\ Observe(Quiet)
    /\ UNCHANGED <<now, admissions, astVars, pathVars, auxVars>>

----------------------------------------------------------------------------
(* PathValidator.  A path is a sequence of segments, absolute or relative *)
(* to the working directory (POSIX).  The filesystem has the directories  *)
(* /, /r (the working directory), /o and /t, the entries of fsFiles, and  *)
(* at most one symbolic link, /r/l, whose target is fsLinks[/r/l].         *)

MaxSegs == 2
maxPathLength == 6

cwd          == <<"r">>
allowedRoots == {<<"r">>, <<"t">>}

Segs == {"..", "r", "o", "a", "l", "..d", "nul"}
SegLen(seg) == CASE seg \in {"r", "o", "a", "l"} -> 1
                 [] seg = ".." -> 2
                 [] OTHER -> 3

Dirs           == {<<>>, <<"r">>, <<"o">>, <<"t">>}
FileCandidates == {<<"r", "a">>, <<"o", "a">>, <<"r", "..d">>}
LinkPath       == <<"r", "l">>
LinkTargets    == {<<"o">>, <<"o", "a">>, <<"t">>, <<"r", "a">>}

RECURSIVE SumLen(_)
SumLen(segs) == IF segs = <<>> THEN 0 ELSE SegLen(Head(segs)) + SumLen(Tail(segs))

(* inputPath.length *)
PathLength(p) ==
    (IF p.abs THEN 1 ELSE 0) + SumLen(p.segs)
        + (IF Len(p.segs) > 1 THEN Len(p.segs) - 1 ELSE 0)

IsPrefix(a, b) == Len(a) <= Len(b) /\ SubSeq(b, 1, Len(a)) = a

(* path.normalize / path.resolve: normalizeString(path, allowAboveRoot) *)
RECURSIVE normalizeString(_, _, _)
normalizeString(segs, allowAboveRoot, out) ==
    IF segs = <<>> THEN out
    ELSE LET seg == Head(segs)
         IN  IF seg = ".."
             THEN IF out # <<>> /\ out[Len(out)] # ".."
                  THEN normalizeString(Tail(segs), allowAboveRoot,
                                       SubSeq(out, 1, Len(out) - 1))
                  ELSE IF allowAboveRoot
                  THEN normalizeString(Tail(segs), allowAboveRoot, Append(out, ".."))
                  ELSE normalizeString(Tail(segs), allowAboveRoot, out)
             ELSE normalizeString(Tail(segs), allowAboveRoot, Append(out, seg))

normalize(p) == [abs |-> p.abs, segs |-> normalizeString(p.segs, ~p.abs, <<>>)]

resolve(p) ==
    IF p.abs THEN normalizeString(p.segs, FALSE, <<>>)
    ELSE normalizeString(cwd \o p.segs, FALSE, <<>>)

(* path.relative(from, to), both absolute and normalized *)
RECURSIVE CommonLen(_, _)
CommonLen(a, b) ==
    IF a = <<>> \/ b = <<>> \/ Head(a) # Head(b) THEN 0
    ELSE 1 + CommonLen(Tail(a), Tail(b))

relative(from, to) ==
    LET k == CommonLen(from, to)
    IN  [abs  |-> FALSE,
         segs |-> [i \in 1..(Len(from) - k) |-> ".."] \o SubSeq(to, k + 1, Len(to))]

(* relativePath.startsWith("..") on the joined string *)
startsWithDotDot(rel) == rel.segs # <<>> /\ rel.segs[1] \in {"..", "..d"}

(* The filesystem: the real path of an absolute path, following the link  *)
(* in every component; ok is FALSE when a component does not exist.       *)
RECURSIVE RealFrom(_, _, _, _, _)
RealFrom(links, files, cur, rest, fuel) ==
    IF rest = <<>> THEN [ok |-> TRUE, path |-> cur]
    ELSE LET cand == Append(cur, Head(rest))
         IN  IF cand \in DOMAIN links
             THEN IF fuel = 0 THEN [ok |-> FALSE, path |-> cand \o Tail(rest)]
                  ELSE LET t == RealFrom(links, files, <<>>, links[cand], fuel - 1)
                       IN  IF t.ok
                           THEN RealFrom(links, files, t.path, Tail(rest), fuel)
                           ELSE [ok |-> FALSE, path |-> t.path \o Tail(rest)]
             ELSE IF cand \in Dirs \cup files
             THEN RealFrom(links, files, cand, Tail(rest), fuel)
             ELSE [ok |-> FALSE, path |-> cand \o Tail(rest)]

Real(links, files, p) == RealFrom(links, files, <<>>, p, 2)

existsSync(links, files, p)   == Real(links, files, p).ok
realpathSync(links, files, p) == Real(links, files, p).path

(* fs.lstatSync(p).isSymbolicLink(): the last component itself is a link *)
isSymbolicLink(links, files, p) ==
    /\ p # <<>>
    /\ LET parent == Real(links, files, SubSeq(p, 1, Len(p) - 1))
       IN  parent.ok /\ Append(parent.path, p[Len(p)]) \in DOMAIN links

(* where a path leads, links followed in every component; the components  *)
(* after a missing one are taken as written                               *)
RealLocation(links, files, p) == Real(links, files, p).path

PathError(code, fsCalls) ==
    [ok |-> FALSE, path |-> <<>>, code |-> code, fsCalls |-> fsCalls]

HasNullByte(p) == \E i \in 1..Len(p.segs) : p.segs[i] = "nul"

(* lines 48-73: the checks made on the input before it is resolved; the  *)
(* code thrown, or "none"                                                 *)
inputError_lengthFirst(p) ==
    IF p.segs = <<>> /\ ~p.abs THEN "INVALID_INPUT"
    ELSE IF PathLength(p) > maxPathLength THEN "PATH_TOO_LONG"
    ELSE IF HasNullByte(p) THEN "NULL_BYTE_DETECTED"
    ELSE "none"

inputError(p) ==
    IF p.segs = <<>> /\ ~p.abs THEN "INVALID_INPUT"
    ELSE IF HasNullByte(p) THEN "NULL_BYTE_DETECTED"
    ELSE IF PathLength(p) > maxPathLength THEN "PATH_TOO_LONG"
    ELSE "none"

(* lines 79-93: the symbolic-link step *)
symlinkStep(links, files, resolveSymlinks, resolvedPath) ==
    IF resolveSymlinks /\ existsSync(links, files, resolvedPath)
        /\ isSymbolicLink(links, files, resolvedPath)
    THEN realpathSync(links, files, resolvedPath)
    ELSE resolvedPath

(* the filesystem calls the symbolic-link step makes: existsSync, then   *)
(* lstatSync, then realpathSync                                           *)
symlinkStepCalls(links, files, resolveSymlinks, resolvedPath) ==
    IF ~resolveSymlinks THEN 0
    ELSE IF ~existsSync(links, files, resolvedPath) THEN 1
    ELSE IF ~isSymbolicLink(links, files, resolvedPath) THEN 2
    ELSE 3

(* lines 96-100: the callback of allowedRoots.some *)
contained_noEscapeCheck(root, resolvedPath) ==
    ~relative(root, resolvedPath).abs

contained(root, resolvedPath) ==
    LET relativePath == relative(root, resolvedPath)
    IN  ~startsWithDotDot(relativePath) /\ ~relativePath.abs

(* the existence check made before the containment check *)
validatePath_existsFirst(links, files, p) ==
    IF inputError(p) # "none" THEN PathError(inputError(p), 0)
    ELSE LET normalizedPath == normalize(p)
             lexicalPath    == resolve(normalizedPath)
             resolvedPath   == symlinkStep(links, files, p.resolveSymlinks,
                                           lexicalPath)
             stepCalls      == symlinkStepCalls(links, files, p.resolveSymlinks,
                                                lexicalPath)
             isWithinAllowedRoot ==
                 \E root \in allowedRoots : contained(root, resolvedPath)
         IN  IF p.requireExists /\ ~existsSync(links, files, resolvedPath)
             THEN PathError("PATH_NOT_FOUND", stepCalls + 1)
             ELSE IF ~isWithinAllowedRoot
             THEN PathError("PATH_TRAVERSAL_DETECTED", stepCalls)
             ELSE [ok |-> TRUE, path |-> resolvedPath, code |-> "none",
                   fsCalls |-> stepCalls + (IF p.requireExists THEN 1 ELSE 0)]

validatePath(links, files, p) ==
    IF inputError(p) # "none" THEN PathError(inputError(p), 0)
    ELSE LET normalizedPath == normalize(p)
             lexicalPath    == resolve(normalizedPath)
             resolvedPath   == symlinkStep(links, files, p.resolveSymlinks,
                                           lexicalPath)
             stepCalls      == symlinkStepCalls(links, files, p.resolveSymlinks,
                                                lexicalPath)
             isWithinAllowedRoot ==
                 \E root \in allowedRoots : contained(root, resolvedPath)
         IN  IF ~isWithinAllowedRoot
             THEN PathError("PATH_TRAVERSAL_DETECTED", stepCalls)
             ELSE IF p.requireExists /\ ~existsSync(links, files, resolvedPath)
             THEN PathError("PATH_NOT_FOUND", stepCalls + 1)
             ELSE [ok |-> TRUE, path |-> resolvedPath, code |-> "none",
                   fsCalls |-> stepCalls + (IF p.requireExists THEN 1 ELSE 0)]

(* validatePaths(paths, options): each path goes through validatePath;   *)
(* an accepted one is pushed on valid, a rejected one on invalid and its  *)
(* error on errors.  batch.paths are the paths, the other fields of batch *)
(* the options every call is made with.                                   *)
PathWith(batch, path) ==
    [abs |-> path.abs, segs |-> path.segs,
     resolveSymlinks |-> batch.resolveSymlinks,
     requireExists |-> batch.requireExists]

PathOf(batch, i) == PathWith(batch, batch.paths[i])

NoBatchResult == [called |-> FALSE, raised |-> FALSE, valid |-> <<>>,
                  invalid |-> <<>>, errors |-> <<>>]

RECURSIVE validatePathsFrom_abortOnFirst(_, _, _, _, _)
validatePathsFrom_abortOnFirst(links, files, batch, i, results) ==
    IF i > Len(batch.paths) THEN results
    ELSE LET r == validatePath(links, files, PathOf(batch, i))
         IN  IF r.ok
             THEN validatePathsFrom_abortOnFirst(links, files, batch, i + 1,
                      [results EXCEPT !.valid =
                          Append(@, [original  |-> batch.paths[i],
                                     validated |-> r.path])])
             ELSE [results EXCEPT
                      !.invalid = Append(@, batch.paths[i]),
                      !.errors  = Append(@, [path |-> batch.paths[i],
                                             code |-> r.code])]

(* the for-of loop of validatePaths, from path i on *)
RECURSIVE validatePathsFrom(_, _, _, _, _)
validatePathsFrom(links, files, batch, i, results) ==
    IF i > Len(batch.paths) THEN results
    ELSE LET r == validatePath(links, files, PathOf(batch, i))
         IN  IF r.ok
             THEN validatePathsFrom(links, files, batch, i + 1,
                      [results EXCEPT !.valid =
                          Append(@, [original  |-> batch.paths[i],
                                     validated |-> r.path])])
             ELSE validatePathsFrom(links, files, batch, i + 1,
                      [results EXCEPT
                          !.invalid = Append(@, batch.paths[i]),
                          !.errors  = Append(@, [path |-> batch.paths[i],
                                                 code |-> r.code])])

validatePaths(links, files, batch) ==
    validatePathsFrom(links, files, batch, 1,
                      [NoBatchResult EXCEPT !.called = TRUE])

----------------------------------------------------------------------------
(* InputSanitizer (input-sanitizer.js).  A string is a sequence of tokens; *)
(* a token is one character, or a run of characters that stays together.   *)
(* An input that is not a string has isString = FALSE.                     *)

maxStringLength   == 12
ShortStringLength == 6

NameTokens  == {"M", "y", ".", " ", "<script>", "constructor"}
RegexTokens == {"(", ")", "+", "*", "a"}

Str(toks)  == [isString |-> TRUE, toks |-> toks]
NotAString == [isString |-> FALSE, toks |-> <<>>]

TokLen(t) == CASE t = "<script>" -> 8 [] t = "constructor" -> 11 [] OTHER -> 1

(* input.length *)
RECURSIVE length(_)
length(toks) ==
    IF toks = <<>> THEN 0 ELSE TokLen(Head(toks)) + length(Tail(toks))

(* the classes of the characters of a token, a run of lower-case letters  *)
(* written once                                                            *)
Classes(t) ==
    CASE t = "M" -> <<"upper">>
      [] t \in {"y", "constructor", "a"} -> <<"lower">>
      [] t = "." -> <<"dot">>
      [] t = " " -> <<"space">>
      [] t = "<script>" -> <<"other", "lower", "other">>
      [] OTHER -> <<"other">>

RECURSIVE classes(_)
classes(toks) ==
    IF toks = <<>> THEN <<>> ELSE Classes(Head(toks)) \o classes(Tail(toks))

(* String.prototype.trim *)
RECURSIVE trimStart(_)
trimStart(toks) ==
    IF toks # <<>> /\ Head(toks) = " " THEN trimStart(Tail(toks)) ELSE toks

RECURSIVE trimEnd(_)
trimEnd(toks) ==
    IF toks # <<>> /\ toks[Len(toks)] = " "
    THEN trimEnd(SubSeq(toks, 1, Len(toks) - 1))
    ELSE toks

trim_tail(toks) == IF toks = <<>> THEN toks ELSE Tail(toks)

trim(toks) == trimEnd(trimStart(toks))

(* the default allowedComponentNamePattern on character classes: one or  *)
(* more dot-separated parts, each an upper-case letter followed by        *)
(* letters, digits, _ and $                                               *)
ComponentNameShape(c) ==
    /\ Len(c) > 0
    /\ c[1] = "upper"
    /\ \A i \in 1..Len(c) :
          /\ c[i] \in {"upper", "lower", "dot"}
          /\ c[i] = "dot" => (i < Len(c) /\ c[i + 1] = "upper")

(* pattern.test(input) for the allow-patterns: the default component-name *)
(* pattern, the default prop-name pattern (a letter, _ or $ followed by    *)
(* letters, digits, _, $ and -), and an allowedComponentNamePattern option *)
(* that admits blanks around the name                                      *)
test(pattern, toks) ==
    CASE pattern = "componentName" -> ComponentNameShape(classes(toks))
      [] pattern = "paddedComponentName" ->
             ComponentNameShape(classes(trim(toks)))
      [] pattern = "propName" ->
             /\ toks # <<>>
             /\ \A i \in 1..Len(classes(toks)) :
                    classes(toks)[i] \in {"upper", "lower"}

(* containsDangerousPatterns(input): of the deny list, /constructor/,     *)
(* /<script/i and /\.\./ can match a string over these tokens              *)
containsDangerousPatterns(toks) ==
    \/ \E i \in 1..Len(toks) : toks[i] \in {"constructor", "<script>"}
    \/ \E i \in 1..(Len(toks) - 1) : toks[i] = "." /\ toks[i + 1] = "."

InputSanitizationError(code) == [ok |-> FALSE, value |-> <<>>, code |-> code]
Sanitized(value)             == [ok |-> TRUE, value |-> value, code |-> "none"]

sanitizeComponentName_denyFirst(S, input) ==
    IF ~input.isString THEN InputSanitizationError("INVALID_TYPE")
    ELSE IF length(input.toks) = 0 THEN InputSanitizationError("EMPTY_VALUE")
    ELSE IF length(input.toks) > S.maxStringLength
    THEN InputSanitizationError("TOO_LONG")
    ELSE IF containsDangerousPatterns(input.toks)
    THEN InputSanitizationError("DANGEROUS_PATTERN")
    ELSE IF ~test(S.allowedComponentNamePattern, input.toks)
    THEN InputSanitizationError("INVALID_FORMAT")
    ELSE Sanitized(trim(input.toks))

(* sanitizeComponentName(componentName) *)
sanitizeComponentName(S, input) ==
    IF ~input.isString THEN InputSanitizationError("INVALID_TYPE")
    ELSE IF length(input.toks) = 0 THEN InputSanitizationError("EMPTY_VALUE")
    ELSE IF length(input.toks) > S.maxStringLength
    THEN InputSanitizationError("TOO_LONG")
    ELSE IF ~test(S.allowedComponentNamePattern, input.toks)
    THEN InputSanitizationError("INVALID_FORMAT")
    ELSE IF containsDangerousPatterns(input.toks)
    THEN InputSanitizationError("DANGEROUS_PATTERN")
    ELSE Sanitized(trim(input.toks))

Quantifiers == {"+", "*"}

(* the number of groups open after the first i tokens of a pattern *)
Depth(toks, i) ==
    Cardinality({j \in 1..i : toks[j] = "("})
        - Cardinality({j \in 1..i : toks[j] = ")"})

(* new RegExp(pattern) does not throw: groups are balanced and every      *)
(* quantifier follows an atom or a group                                   *)
RegExp(toks) ==
    /\ \A i \in 1..Len(toks) : Depth(toks, i) >= 0
    /\ Depth(toks, Len(toks)) = 0
    /\ \A i \in 1..Len(toks) :
          toks[i] \in Quantifiers => (i > 1 /\ toks[i - 1] \in {"a", ")"})

(* dangerousRegexPatterns: of the list, a star next to a plus, and a      *)
(* group up to its first closing parenthesis that holds a quantifier and  *)
(* is followed by a quantifier, can match a pattern over these tokens     *)
dangerousRegexPatterns(toks) ==
    \/ \E i \in 1..(Len(toks) - 1) :
          /\ toks[i] \in Quantifiers
          /\ toks[i + 1] \in Quantifiers
          /\ toks[i] # toks[i + 1]
    \/ \E i, j, k \in 1..Len(toks) :
          /\ i < j /\ j < k /\ k < Len(toks)
          /\ toks[i] = "("
          /\ toks[j] \in Quantifiers
          /\ toks[k] = ")"
          /\ toks[k + 1] \in Quantifiers
          /\ \A m \in (i + 1)..(k - 1) : toks[m] # ")"

(* sanitizeRegexPattern(pattern) *)
sanitizeRegexPattern(S, input) ==
    IF ~input.isString THEN InputSanitizationError("INVALID_TYPE")
    ELSE IF length(input.toks) > S.maxStringLength
    THEN InputSanitizationError("TOO_LONG")
    ELSE IF ~RegExp(input.toks) THEN InputSanitizationError("INVALID_REGEX")
    ELSE IF dangerousRegexPatterns(input.toks)
    THEN InputSanitizationError("DANGEROUS_REGEX")
    ELSE Sanitized(input.toks)

(* sanitizePropName(propName) *)
sanitizePropName(S, input) ==
    IF ~input.isString THEN InputSanitizationError("INVALID_TYPE")
    ELSE IF length(input.toks) = 0 THEN InputSanitizationError("EMPTY_VALUE")
    ELSE IF length(input.toks) > S.maxStringLength
    THEN InputSanitizationError("TOO_LONG")
    ELSE IF ~test("propName", input.toks)
    THEN InputSanitizationError("INVALID_FORMAT")
    ELSE IF containsDangerousPatterns(input.toks)
    THEN InputSanitizationError("DANGEROUS_PATTERN")
    ELSE Sanitized(trim(input.toks))

(* sanitizeString(input, fieldName) with the default options *)
sanitizeString(S, input) ==
    IF ~input.isString THEN InputSanitizationError("INVALID_TYPE")
    ELSE IF length(input.toks) > S.maxStringLength
    THEN InputSanitizationError("TOO_LONG")
    ELSE IF \E i \in 1..Len(input.toks) : input.toks[i] = "NUL"
    THEN InputSanitizationError("NULL_BYTE")
    ELSE IF containsDangerousPatterns(input.toks)
    THEN InputSanitizationError("DANGEROUS_PATTERN")
    ELSE Sanitized(trim(input.toks))

(* sanitizeString(input, fieldName, {allowDangerousPatterns: true}) *)
sanitizeStringAllowing(S, input) ==
    IF ~input.isString THEN InputSanitizationError("INVALID_TYPE")
    ELSE IF length(input.toks) > S.maxStringLength
    THEN InputSanitizationError("TOO_LONG")
    ELSE IF \E i \in 1..Len(input.toks) : input.toks[i] = "NUL"
    THEN InputSanitizationError("NULL_BYTE")
    ELSE Sanitized(trim(input.toks))

(* allowedSearchValuePattern.test(searchValue): no character of the       *)
(* excluded set, which holds the angle brackets and the parentheses       *)
allowedSearchValuePattern(toks) ==
    \A i \in 1..Len(toks) : toks[i] \notin {"<script>", "(", ")"}

(* sanitizeSearchValue(searchValue) *)
sanitizeSearchValue(S, input) ==
    IF ~input.isString THEN InputSanitizationError("INVALID_TYPE")
    ELSE IF length(input.toks) > S.maxStringLength
    THEN InputSanitizationError("TOO_LONG")
    ELSE IF ~allowedSearchValuePattern(input.toks)
    THEN InputSanitizationError("DANGEROUS_CHARACTERS")
    ELSE Sanitized(input.toks)

(* sanitizeGlobPattern(globPattern) *)
sanitizeGlobPattern(S, input) ==
    IF ~input.isString THEN InputSanitizationError("INVALID_TYPE")
    ELSE IF length(input.toks) > S.maxStringLength
    THEN InputSanitizationError("TOO_LONG")
    ELSE IF \E i \in 1..(Len(input.toks) - 2) :
                /\ input.toks[i] = "."
                /\ input.toks[i + 1] = "."
                /\ input.toks[i + 2] = "/"
    THEN InputSanitizationError("PATH_TRAVERSAL")
    ELSE IF input.toks # <<>> /\ Head(input.toks) = "/"
    THEN InputSanitizationError("ABSOLUTE_PATH")
    ELSE Sanitized(input.toks)

(* the text of a path: its segments, joined by the separator *)
SegToks(seg) ==
    CASE seg = ".." -> <<".", ".">>
      [] seg = "..d" -> <<".", ".", "y">>
      [] seg = "nul" -> <<"y", "NUL", "y">>
      [] OTHER -> <<"y">>

RECURSIVE JoinSegs(_)
JoinSegs(segs) ==
    IF segs = <<>> THEN <<>>
    ELSE IF Len(segs) = 1 THEN SegToks(Head(segs))
    ELSE SegToks(Head(segs)) \o <<"/">> \o JoinSegs(Tail(segs))

PathToks(p) == (IF p.abs THEN <<"/">> ELSE <<>>) \o JoinSegs(p.segs)

(* sanitizeAnalyzeParams(params): rootDir is a path and is sanitized as   *)
(* its text; an empty string is a missing parameter; propValue is absent; *)
(* params.flags tells whether findMissing, verbose and includes, where    *)
(* given, are booleans                                                     *)
sanitizeAnalyzeParams(S, bag) ==
    IF PathToks(bag.rootDir) = <<>> THEN InputSanitizationError("MISSING_REQUIRED")
    ELSE IF bag.componentName.isString /\ bag.componentName.toks = <<>>
    THEN InputSanitizationError("MISSING_REQUIRED")
    ELSE IF bag.propName.isString /\ bag.propName.toks = <<>>
    THEN InputSanitizationError("MISSING_REQUIRED")
    ELSE IF ~sanitizeString(S, Str(PathToks(bag.rootDir))).ok
    THEN sanitizeString(S, Str(PathToks(bag.rootDir)))
    ELSE IF ~sanitizeComponentName(S, bag.componentName).ok
    THEN sanitizeComponentName(S, bag.componentName)
    ELSE IF ~sanitizePropName(S, bag.propName).ok
    THEN sanitizePropName(S, bag.propName)
    ELSE IF bag.flags # "boolean" THEN InputSanitizationError("INVALID_TYPE")
    ELSE Sanitized(sanitizeString(S, Str(PathToks(bag.rootDir))).value)

(* Values of a parameter object.  An array holds strings; a number is    *)
(* finite and not 0, or not finite.                                       *)
maxArrayLength == 1

JsValue(type) == [type |-> type, toks |-> <<>>, bool |-> FALSE, items |-> <<>>]
Undefined   == JsValue("undefined")
Null        == JsValue("null")
Number      == JsValue("number")
NotFinite   == JsValue("notFinite")
Function    == JsValue("function")
Boolean(b)  == [JsValue("boolean") EXCEPT !.bool = b]
Text(toks)  == [JsValue("string") EXCEPT !.toks = toks]
Array(list) == [JsValue("array") EXCEPT !.items = list]

(* the argument of a string validator *)
Argument(v) == IF v.type = "string" THEN Str(v.toks) ELSE NotAString

(* !value *)
Falsy(v) ==
    \/ v.type \in {"undefined", "null"}
    \/ v.type = "string" /\ v.toks = <<>>
    \/ v.type = "boolean" /\ ~v.bool

PropValueError(code) == [ok |-> FALSE, value |-> Undefined, code |-> code]
PropValue(v)         == [ok |-> TRUE, value |-> v, code |-> "none"]

(* sanitizePropValue(propValue) on a value that is no object *)
sanitizePropValue(S, v) ==
    IF v.type \in {"null", "undefined"} THEN PropValue(v)
    ELSE IF v.type = "boolean" THEN PropValue(v)
    ELSE IF v.type = "notFinite" THEN PropValueError("INVALID_NUMBER")
    ELSE IF v.type = "number" THEN PropValue(v)
    ELSE IF v.type = "string"
    THEN LET r == sanitizeString(S, Str(v.toks))
         IN  IF r.ok THEN PropValue(Text(r.value)) ELSE PropValueError(r.code)
    ELSE IF v.type = "array"
    THEN IF Len(v.items) > maxArrayLength
         THEN PropValueError("ARRAY_TOO_LONG")
         ELSE LET bad == {i \in 1..Len(v.items) :
                             ~sanitizeString(S, Str(v.items[i])).ok}
              IN  IF bad # {}
                  THEN PropValueError(
                           sanitizeString(S, Str(v.items[
                               CHOOSE i \in bad : \A j \in bad : i <= j])).code)
                  ELSE PropValue(Array([i \in 1..Len(v.items) |->
                           sanitizeString(S, Str(v.items[i])).value]))
    ELSE PropValueError("UNSUPPORTED_TYPE")

KnownFields == {"rootDir", "componentName", "propName", "propValue",
                "findMissing", "verbose", "includes"}
FlagFields  == {"findMissing", "verbose", "includes"}

ParamsError(field, code) ==
    [called |-> TRUE, ok |-> FALSE, name |-> field, code |-> code,
     sanitized |-> <<>>]

(* the fields sanitizeAnalyzeParams assigns when every check passes *)
AssignedFields(object) ==
    {"rootDir", "componentName", "propName"}
    \cup (IF object.propValue.type \in {"undefined", "null"}
          THEN {} ELSE {"propValue"})
    \cup {f \in FlagFields : object[f] # Undefined}

AssignedValue(S, object, f) ==
    CASE f = "rootDir" ->
             Text(sanitizeString(S, Argument(object.rootDir)).value)
      [] f = "componentName" ->
             Text(sanitizeComponentName(S, Argument(object.componentName)).value)
      [] f = "propName" ->
             Text(sanitizePropName(S, Argument(object.propName)).value)
      [] f = "propValue" -> sanitizePropValue(S, object.propValue).value
      [] OTHER -> object[f]

(* the checks of sanitizeAnalyzeParams, in the order it makes them: the   *)
(* error of the first one that fails                                      *)
ParamsRefusal(S, object) ==
    IF Falsy(object.rootDir) THEN ParamsError("rootDir", "MISSING_REQUIRED")
    ELSE IF Falsy(object.componentName)
    THEN ParamsError("componentName", "MISSING_REQUIRED")
    ELSE IF Falsy(object.propName)
    THEN ParamsError("propName", "MISSING_REQUIRED")
    ELSE IF ~sanitizeString(S, Argument(object.rootDir)).ok
    THEN ParamsError("rootDir",
                     sanitizeString(S, Argument(object.rootDir)).code)
    ELSE IF ~sanitizeComponentName(S, Argument(object.componentName)).ok
    THEN ParamsError("componentName",
             sanitizeComponentName(S, Argument(object.componentName)).code)
    ELSE IF ~sanitizePropName(S, Argument(object.propName)).ok
    THEN ParamsError("propName",
             sanitizePropName(S, Argument(object.propName)).code)
    ELSE IF ~sanitizePropValue(S, object.propValue).ok
    THEN ParamsError("propValue", sanitizePropValue(S, object.propValue).code)
    ELSE IF \E f \in FlagFields : object[f].type \notin {"undefined", "boolean"}
    THEN ParamsError(
             IF object.findMissing.type \notin {"undefined", "boolean"}
             THEN "findMissing"
             ELSE IF object.verbose.type \notin {"undefined", "boolean"}
             THEN "verbose" ELSE "includes",
             "INVALID_TYPE")
    ELSE [called |-> TRUE, ok |-> TRUE, name |-> "none", code |-> "none",
          sanitized |-> <<>>]

sanitizeAnalyzeParamsObject_spread(S, object) ==
    IF ~ParamsRefusal(S, object).ok THEN ParamsRefusal(S, object)
    ELSE [ParamsRefusal(S, object) EXCEPT !.sanitized =
             [f \in AssignedFields(object)
                     \cup {g \in DOMAIN object : object[g] # Undefined}
                 |-> IF f \in AssignedFields(object)
                     THEN AssignedValue(S, object, f) ELSE object[f]]]

(* sanitizeAnalyzeParams(params) on a parameter object: a function from   *)
(* the names of its properties to their values, Undefined where absent    *)
sanitizeAnalyzeParamsObject(S, object) ==
    IF ~ParamsRefusal(S, object).ok THEN ParamsRefusal(S, object)
    ELSE [ParamsRefusal(S, object) EXCEPT !.sanitized =
             [f \in AssignedFields(object) |-> AssignedValue(S, object, f)]]

NoBagResult == [called |-> FALSE, ok |-> FALSE, name |-> "none", code |-> "none",
                rootDir |-> <<>>]

BagError(name, code) ==
    [called |-> TRUE, ok |-> FALSE, name |-> name, code |-> code, rootDir |-> <<>>]

(* the rootDir handed to validatePath, with the options of the call *)
RootDirArgument(bag) ==
    [abs |-> bag.rootDir.abs, segs |-> bag.rootDir.segs,
     resolveSymlinks |-> TRUE, requireExists |-> TRUE]

validateAndSanitize_pathFirst(S, links, files, bag) ==
    LET validatedPath == validatePath(links, files, RootDirArgument(bag))
        sanitized     == sanitizeAnalyzeParams(S, bag)
    IN  IF ~validatedPath.ok
        THEN BagError("PathValidationError", validatedPath.code)
        ELSE IF ~sanitized.ok
        THEN BagError("InputSanitizationError", sanitized.code)
        ELSE [called |-> TRUE, ok |-> TRUE, name |-> "none", code |-> "none",
              rootDir |-> validatedPath.path]

(* createSecurityContext().validateAndSanitize(params) *)
validateAndSanitize(S, links, files, bag) ==
    LET sanitized     == sanitizeAnalyzeParams(S, bag)
        validatedPath == validatePath(links, files, RootDirArgument(bag))
    IN  IF ~sanitized.ok
        THEN BagError("InputSanitizationError", sanitized.code)
        ELSE IF ~validatedPath.ok
        THEN BagError("PathValidationError", validatedPath.code)
        ELSE [called |-> TRUE, ok |-> TRUE, name |-> "none", code |-> "none",
              rootDir |-> validatedPath.path]

NoSanResult == [called |-> FALSE, ok |-> FALSE, value |-> <<>>, code |-> "none"]

Raised(result) == [called |-> TRUE, ok |-> result.ok, value |-> result.value,
                   code |-> result.code]

RECURSIVE SeqsUpTo(_, _)
SeqsUpTo(S, n) ==
    IF n = 0 THEN {<<>>}
    ELSE LET shorter == SeqsUpTo(S, n - 1)
         IN  shorter \cup {Append(q, x) : q \in shorter, x \in S}

PathInputs ==
    {[abs |-> a, segs |-> q, resolveSymlinks |-> rs, requireExists |-> re] :
        a \in BOOLEAN, q \in SeqsUpTo(Segs, MaxSegs), rs \in BOOLEAN, re \in BOOLEAN}

NoPathResult == [called |-> FALSE, ok |-> FALSE, path |-> <<>>, code |-> "none",
                 fsCalls |-> 0]

NoLinks == [q \in {} |-> <<>>]

MaxBatch == 3

(* the paths of a batch: inside the root, through the link, above the    *)
(* root, with a NUL byte, outside the roots                               *)
BatchPaths ==
    {[abs |-> FALSE, segs |-> <<"a">>],
     [abs |-> FALSE, segs |-> <<"l">>],
     [abs |-> FALSE, segs |-> <<"..", "o">>],
     [abs |-> FALSE, segs |-> <<"nul">>],
     [abs |-> TRUE,  segs |-> <<"t", "a">>]}

Batches ==
    {[paths |-> q, resolveSymlinks |-> rs, requireExists |-> re] :
        q \in SeqsUpTo(BatchPaths, MaxBatch), rs \in BOOLEAN, re \in BOOLEAN}

MaxNameToks  == 3
MaxRegexToks == 6

(* the instances: the default options, a lower maxStringLength, an        *)
(* allowedComponentNamePattern override                                    *)
Sanitizers ==
    {[maxStringLength |-> n, allowedComponentNamePattern |-> pattern] :
        n \in {ShortStringLength, maxStringLength},
        pattern \in {"componentName", "paddedComponentName"}}

DefaultSanitizer ==
    [maxStringLength |-> maxStringLength,
     allowedComponentNamePattern |-> "componentName"]

SanInputs(nameToks, regexToks) ==
    {[field |-> "componentName", arg |-> Str(q)] :
        q \in SeqsUpTo(NameTokens, nameToks)}
    \cup {[field |-> "regexPattern", arg |-> Str(q)] :
        q \in SeqsUpTo(RegexTokens, regexToks)}
    \cup {[field |-> f, arg |-> NotAString] :
        f \in {"componentName", "regexPattern"}}

InitSanitizerIdle ==
    /\ sanitizer = DefaultSanitizer
    /\ sanInput = [field |-> "none", arg |-> NotAString]
    /\ sanResult = NoSanResult
    /\ sanAgain = NoSanResult

(* parameter bags: every rootDir, with names that are valid, refused or  *)
(* empty, and flags that are booleans or not                               *)
BagNames ==
    {[componentName |-> Str(<<"M">>), propName |-> Str(<<"y">>), flags |-> "boolean"],
     [componentName |-> Str(<<"<script>">>), propName |-> Str(<<"y">>), flags |-> "boolean"],
     [componentName |-> Str(<<"M">>), propName |-> Str(<<"constructor">>), flags |-> "boolean"],
     [componentName |-> Str(<<>>), propName |-> Str(<<"y">>), flags |-> "boolean"],
     [componentName |-> Str(<<"M">>), propName |-> Str(<<"y">>), flags |-> "other"]}

Bags ==
    {[rootDir |-> [abs |-> a, segs |-> q], componentName |-> n.componentName,
      propName |-> n.propName, flags |-> n.flags] :
        a \in BOOLEAN, q \in SeqsUpTo(Segs, MaxSegs), n \in BagNames}

InitBagIdle ==
    /\ params = [rootDir |-> [abs |-> FALSE, segs |-> <<>>],
                 componentName |-> Str(<<>>), propName |-> Str(<<>>),
                 flags |-> "boolean"]
    /\ bagResult = NoBagResult

InitBatchIdle ==
    /\ pathsInput = [paths |-> <<>>, resolveSymlinks |-> TRUE,
                     requireExists |-> FALSE]
    /\ pathsResult = NoBatchResult

InitPathIdle ==
    /\ fsLinks = NoLinks
    /\ fsFiles = {}
    /\ pathInput = [abs |-> FALSE, segs |-> <<>>, resolveSymlinks |-> TRUE,
                    requireExists |-> FALSE]
    /\ pathResult = NoPathResult

----------------------------------------------------------------------------
(* The limiter and the parser: Spec                                        *)

(* a size argument of recordFileProcessed: any number *)
Sizes == {-1} \cup 1..MaxSize

(* the length of a source text, and the size fs.promises.stat reports      *)
(* (-1: stat fails)                                                        *)
CodeLens == 1..MaxSize
Stats    == {-1} \cup CodeLens

(* a source text is plain, contains a NUL byte, has a line over 10000    *)
(* characters (a text with both fails the NUL guard first), or passes     *)
(* both guards and contains a construct of this.dangerousPatterns         *)
Texts == {"plain", "nul", "longLine", "suspicious"}

(* the texts of the calls that run side by side: one that passes the     *)
(* guards and one that fails the first of them                            *)
SharedTexts == {"plain", "nul"}

(* parser behaviours that return at once *)
FastBehaviours == {b \in ParseBehaviours : b.dur = 0}

NoDiscard == [reset |-> FALSE, files |-> 0, bytes |-> 0, dirs |-> 0]

InitLedgerGhost ==
    /\ fileRecords = <<>>
    /\ discarded = NoDiscard

InitScopedIdle ==
    /\ scopedLimits = EmptyMap
    /\ scoped = NoScoped

InitAux ==
    /\ InitLedgerGhost /\ InitBatchIdle /\ InitSanitizerIdle /\ InitBagIdle
    /\ InitScopedIdle

InitOther ==
    /\ astInput = ChainAst(1)
    /\ astResult = NoAstResult
    /\ InitPathIdle

InitConstructed ==
    /\ currentOperations = {}
    /\ operationStartTimes = EmptyMap
    /\ totalFilesProcessed = 0
    /\ totalSizeProcessed = 0
    /\ directoriesScanned = 0
    /\ memoryCheckTimer = TRUE
    /\ now = 1
    /\ calls = [c \in Calls |-> IdleCall]
    /\ admissions = <<>>

InitLimiter == InitConstructed /\ InitAux

Init == InitLimiter /\ InitOther /\ lastCall = Unobserved

(* Spec: concurrent parseFile calls interleaved with direct calls of the  *)
(* limiter with generated identifiers; the parser returns at once and a   *)
(* direct recordFileProcessed records one byte.                           *)
Next ==
    \/ StartOperation(NullId)
    \/ \E id \in GenIds \cup CallIds : EndOperation(id)
    \/ RecordFileProcessed(1)
    \/ Reset
    \/ Destroy
    \/ TimerFires
    \/ \E c \in Calls, source \in {"memory", "disk"}, codeLen \in CodeLens,
          text \in SharedTexts, b \in FastBehaviours :
          ParseFileStart(c, source, codeLen, text, b)
    \/ \E c \in Calls, stat \in Stats, b \in FastBehaviours :
          ParseFileAfterSize(c, stat, b)
    \/ \E c \in Calls : ParseFileAfterParse(c)

Spec == Init /\ [][Next]_vars

(* SpecCall: one parseFile call at a time with every text and every       *)
(* parser behaviour, interleaved with admissions, releases, the memory    *)
(* sampler, reset and recordFileProcessed of a negative or positive size. *)
NextCall ==
    \/ StartOperation(NullId)
    \/ \E id \in GenIds \cup {CallId(1)} : EndOperation(id)
    \/ \E size \in {-1, 1} : RecordFileProcessed(size)
    \/ Reset
    \/ TimerFires
    \/ \E source \in {"memory", "disk"}, codeLen \in CodeLens,
          text \in Texts, b \in ParseBehaviours :
          ParseFileStart(1, source, codeLen, text, b)
    \/ \E stat \in Stats, b \in ParseBehaviours : ParseFileAfterSize(1, stat, b)
    \/ ParseFileAfterParse(1)

InitCall == InitLimiter /\ InitOther /\ lastCall = Quiet

SpecCall == InitCall /\ [][NextCall]_vars

----------------------------------------------------------------------------
(* SpecAdmission: startOperation and endOperation alone.  admissions is   *)
(* the sequence of startOperation calls made since the active set was     *)
(* last empty; a release cuts it.                                         *)

Admitted(r) ==
    IF currentOperations = {}
    THEN <<[id |-> r.id, ok |-> r.err = NoError]>>
    ELSE IF admissions # <<>>
    THEN Append(admissions, [id |-> r.id, ok |-> r.err = NoError])
    ELSE admissions

AdmissionStart(operationId) ==
    /\ Len(admissions) <= maxConcurrentOperations + 1
    /\ LET r == startOperation(Ledger, operationId, FreshId(Ledger), now)
       IN  /\ SetLedger(r.ledger)
           /\ admissions' = Admitted(r)
           /\ Emitted("startOperation", r.id, 0, r.err, r.emitted)
    /\ UNCHANGED <<memoryCheckTimer, now, calls, astVars, pathVars, auxVars>>

AdmissionEnd(operationId) ==
    /\ SetLedger(endOperation(Ledger, operationId))
    /\ admissions' = <<>>
    /\ Returned("endOperation", operationId, 0, NoError)
    /\ UNCHANGED <<memoryCheckTimer, now, calls, astVars, pathVars, auxVars>>

NextAdmission ==
    \/ \E id \in SuppliedIds \cup {NullId} : AdmissionStart(id)
    \/ \E id \in SuppliedIds \cup GenIds : AdmissionEnd(id)

SpecAdmission == InitCall /\ [][NextAdmission]_vars

----------------------------------------------------------------------------
(* SpecLifecycle: direct calls of one limiter while the clock advances:  *)
(* admission and release, the timeout and size checks, the file counter,  *)
(* reset and destroy.                                                     *)

NextLifecycle ==
    \/ \E id \in SuppliedInSpec \cup {NullId} : StartOperation(id)
    \/ \E id \in SuppliedInSpec \cup GenIds : EndOperation(id)
    \/ \E id \in SuppliedInSpec \cup GenIds : CheckOperationTimeout(id)
    \/ \E stat \in Stats : CheckFileSize(stat)
    \/ RecordFileProcessed(1)
    \/ Reset
    \/ Destroy
    \/ Tick

SpecLifecycle == InitCall /\ [][NextLifecycle]_vars

----------------------------------------------------------------------------
(* SpecScoped: a limiter, the limiter its createScoped returned, and      *)
(* admissions and releases on both.  The overrides give no ceiling, one   *)
(* ceiling, or all of them: 0, a value below the model's ceilings, or one *)
(* above.                                                                 *)

MaxOverride == 3
OverrideValues == {0, 1, MaxOverride}

Overrides ==
    {EmptyMap}
    \cup {[n \in {name} |-> v] : name \in CeilingNames, v \in OverrideValues}
    \cup {[n \in CeilingNames |-> v] : v \in OverrideValues}

InitScoped ==
    /\ InitConstructed
    /\ lastCall = Quiet
    /\ InitLedgerGhost /\ InitBatchIdle /\ InitSanitizerIdle /\ InitBagIdle
    /\ InitOther
    /\ scopedLimits \in Overrides
    /\ scoped = NoScoped

ScopedFrame ==
    UNCHANGED <<limiterVars, now, calls, admissions, astVars, pathVars,
                ledgerGhost, batchVars, sanVars, params, bagResult,
                scopedLimits>>

CreateScoped ==
    /\ scoped' = createScoped(Limits, scopedLimits)
    /\ Returned("createScoped", NullId, 0, NoError)
    /\ ScopedFrame

ScopedStartOperation(operationId) ==
    /\ scoped.created
    /\ LET r == scopedStartOperation(scoped, operationId,
                                     FreshId(scoped.ledger), now)
       IN  /\ scoped' = r.child
           /\ Emitted("scoped.startOperation", r.id, 0, r.err, r.emitted)
    /\ ScopedFrame

ScopedEndOperation(operationId) ==
    /\ scoped.created
    /\ scoped' = scopedEndOperation(scoped, operationId)
    /\ Emitted("scoped.endOperation", operationId, 0, NoError,
               IF operationId \in DOMAIN scoped.ledger.operationStartTimes
               THEN "operationEnded" ELSE "none")
    /\ ScopedFrame

NextScoped ==
    \/ \E id \in SuppliedInSpec \cup {NullId} : StartOperation(id)
    \/ \E id \in SuppliedInSpec \cup GenIds : EndOperation(id)
    \/ CreateScoped
    \/ \E id \in SuppliedInSpec \cup {NullId} : ScopedStartOperation(id)
    \/ \E id \in SuppliedInSpec \cup GenIds : ScopedEndOperation(id)

SpecScoped == InitScoped /\ [][NextScoped]_vars

----------------------------------------------------------------------------
(* SpecParams: sanitizeAnalyzeParams on one parameter object, which has   *)
(* the known properties, present or absent, valid or not, and a property  *)
(* the analyzer does not know.                                            *)

ParamObjects ==
    [rootDir       : {Undefined, Text(<<"y">>), Text(<<" ", "y">>),
                      Text(<<".", ".">>)},
     componentName : {Text(<<"M">>), Text(<<"<script>">>), Number},
     propName      : {Text(<<"y">>), Text(<<>>)},
     propValue     : {Undefined, Null, Boolean(TRUE), Number, NotFinite,
                      Text(<<"y", " ">>), Text(<<"constructor">>),
                      Array(<<<<"y", " ">>>>), Array(<<<<"<script>">>>>),
                      Array(<<<<"y">>, <<"y">>>>), Function},
     findMissing   : {Undefined, Boolean(FALSE), Text(<<"y">>)},
     verbose       : {Undefined, Boolean(TRUE)},
     includes      : {Undefined, Boolean(TRUE), Number},
     callback      : {Undefined, Text(<<"constructor">>), Function}]

InitParams ==
    /\ InitConstructed
    /\ InitScopedIdle
    /\ lastCall = Unobserved
    /\ InitLedgerGhost
    /\ InitBatchIdle
    /\ InitSanitizerIdle
    /\ InitOther
    /\ params \in ParamObjects
    /\ bagResult = NoBagResult

SanitizeAnalyzeParams ==
    /\ ~bagResult.called
    /\ bagResult' = sanitizeAnalyzeParamsObject(sanitizer, params)
    /\ UNCHANGED <<limiterVars, now, calls, ghostVars, astVars, pathVars,
                   ledgerGhost, batchVars, restVars>>

NextParams == SanitizeAnalyzeParams

SpecParams == InitParams /\ [][NextParams]_vars

----------------------------------------------------------------------------
(* SpecShared: parseFile calls that share one limiter, and nothing else.  *)

NextShared ==
    \/ \E c \in Calls, source \in {"memory", "disk"}, codeLen \in CodeLens,
          text \in SharedTexts, b \in FastBehaviours :
          ParseFileStart(c, source, codeLen, text, b)
    \/ \E c \in Calls, stat \in Stats, b \in FastBehaviours :
          ParseFileAfterSize(c, stat, b)
    \/ \E c \in Calls : ParseFileAfterParse(c)

SpecShared == InitCall /\ [][NextShared]_vars

----------------------------------------------------------------------------
(* SpecOverrun: recordFileProcessed called up to MaxOverrun times past    *)
(* the file-count ceiling, with reset, admissions and releases.           *)

MaxOverrun == 2

RecordPastCeiling(fileSize) ==
    /\ totalFilesProcessed < maxFileCount + MaxOverrun
    /\ LET r == recordFileProcessed(Ledger, fileSize)
       IN  /\ SetLedger(r.ledger)
           /\ Returned("recordFileProcessed", NullId, fileSize, r.err)
    /\ UNCHANGED <<memoryCheckTimer, now, calls, admissions, astVars, pathVars, auxVars>>

NextOverrun ==
    \/ \E size \in Sizes : RecordPastCeiling(size)
    \/ Reset
    \/ StartOperation(NullId)
    \/ \E id \in GenIds : EndOperation(id)

SpecOverrun == InitCall /\ [][NextOverrun]_vars

----------------------------------------------------------------------------
(* SpecLedger: the throughput counters.  recordFileProcessed,             *)
(* trackDirectoryTraversal and reset, interleaved with startOperation and *)
(* endOperation.  fileRecords is the sequence of recordFileProcessed      *)
(* calls made since the counters were last 0.                             *)

RecordSizes == 0..MaxSize

LedgerRecord(fileSize) ==
    /\ totalFilesProcessed < MaxFiles
    /\ LET r == recordFileProcessed(Ledger, fileSize)
       IN  /\ SetLedger(r.ledger)
           /\ fileRecords' = Append(fileRecords,
                                    [size |-> fileSize, ok |-> r.err = NoError])
           /\ Returned("recordFileProcessed", NullId, fileSize, r.err)
    /\ UNCHANGED <<memoryCheckTimer, now, calls, admissions, discarded, astVars,
                   pathVars, batchVars, restVars, bagResult>>

LedgerTrack(depth) ==
    /\ directoriesScanned < MaxDirs
    /\ LET r == trackDirectoryTraversal(Ledger, depth)
       IN  /\ SetLedger(r.ledger)
           /\ Returned("trackDirectoryTraversal", NullId, depth, r.err)
    /\ UNCHANGED <<memoryCheckTimer, now, calls, admissions, ledgerGhost, astVars,
                   pathVars, batchVars, restVars, bagResult>>

LedgerReset ==
    /\ SetLedger(reset(Ledger))
    /\ fileRecords' = <<>>
    /\ discarded' = [reset |-> TRUE, files |-> totalFilesProcessed,
                     bytes |-> totalSizeProcessed, dirs |-> directoriesScanned]
    /\ Returned("reset", NullId, 0, NoError)
    /\ UNCHANGED <<memoryCheckTimer, now, calls, admissions, astVars, pathVars,
                   batchVars, restVars, bagResult>>

NextLedger ==
    \/ \E size \in RecordSizes : LedgerRecord(size)
    \/ \E depth \in 0..(maxDirectoryDepth + 1) : LedgerTrack(depth)
    \/ LedgerReset
    \/ StartOperation(NullId)
    \/ \E id \in GenIds : EndOperation(id)

SpecLedger == InitCall /\ [][NextLedger]_vars

----------------------------------------------------------------------------
(* SpecAST: validateAST on every graph over AstNodes, from the default    *)
(* starting depth 0 and from explicit starting depths.                    *)

InitAST ==
    /\ InitLimiter
    /\ lastCall = Unobserved
    /\ astInput \in Graphs(AstNodes)
    /\ astResult = NoAstResult
    /\ InitPathIdle

ValidateAST(depth) ==
    /\ LET r == validateAST(astInput, depth)
       IN  astResult' = [called |-> TRUE, depth |-> depth,
                         nodeCount |-> r.nodeCount, maxDepth |-> r.maxDepth,
                         traversed |-> r.traversed, err |-> r.err]
    /\ UNCHANGED <<limiterVars, now, calls, ghostVars, astInput, pathVars, auxVars>>

NextAST == \E depth \in 0..(maxASTDepth + 1) : ValidateAST(depth)

SpecAST == InitAST /\ [][NextAST]_vars

----------------------------------------------------------------------------
(* SpecPath: validatePath on one input while the filesystem changes       *)

InitPath ==
    /\ InitLimiter
    /\ lastCall = Unobserved
    /\ astInput = ChainAst(1)
    /\ astResult = NoAstResult
    /\ fsLinks = NoLinks
    /\ fsFiles = {}
    /\ pathInput \in PathInputs
    /\ pathResult = NoPathResult

ValidatePath ==
    /\ LET r == validatePath(fsLinks, fsFiles, pathInput)
       IN  pathResult' = [called |-> TRUE, ok |-> r.ok, path |-> r.path,
                          code |-> r.code, fsCalls |-> r.fsCalls]
    /\ UNCHANGED <<limiterVars, now, calls, ghostVars, astVars, fsLinks, fsFiles,
                   pathInput, auxVars>>

(* ln -sfn target /r/l, rm /r/l *)
Symlink(target) ==
    /\ fsLinks' = [q \in {LinkPath} |-> target]
    /\ pathResult' = NoPathResult
    /\ pathsResult' = NoBatchResult
    /\ bagResult' = NoBagResult
    /\ UNCHANGED <<limiterVars, now, calls, ghostVars, astVars, fsFiles, pathInput, ledgerGhost, pathsInput, restVars>>

Unlink ==
    /\ fsLinks # NoLinks
    /\ fsLinks' = NoLinks
    /\ pathResult' = NoPathResult
    /\ pathsResult' = NoBatchResult
    /\ bagResult' = NoBagResult
    /\ UNCHANGED <<limiterVars, now, calls, ghostVars, astVars, fsFiles, pathInput, ledgerGhost, pathsInput, restVars>>

(* an entry is created or removed *)
Touch(f) ==
    /\ f \notin fsFiles
    /\ fsFiles' = fsFiles \cup {f}
    /\ pathResult' = NoPathResult
    /\ pathsResult' = NoBatchResult
    /\ bagResult' = NoBagResult
    /\ UNCHANGED <<limiterVars, now, calls, ghostVars, astVars, fsLinks, pathInput, ledgerGhost, pathsInput, restVars>>

Remove(f) ==
    /\ f \in fsFiles
    /\ fsFiles' = fsFiles \ {f}
    /\ pathResult' = NoPathResult
    /\ pathsResult' = NoBatchResult
    /\ bagResult' = NoBagResult
    /\ UNCHANGED <<limiterVars, now, calls, ghostVars, astVars, fsLinks, pathInput, ledgerGhost, pathsInput, restVars>>

NextPath ==
    \/ ValidatePath
    \/ \E target \in LinkTargets : Symlink(target)
    \/ Unlink
    \/ \E f \in FileCandidates : Touch(f)
    \/ \E f \in FileCandidates : Remove(f)

SpecPath == InitPath /\ [][NextPath]_vars

----------------------------------------------------------------------------
(* SpecBatch: validatePaths on one batch while the filesystem changes     *)

InitBatch ==
    /\ InitConstructed
    /\ InitScopedIdle
    /\ lastCall = Unobserved
    /\ InitLedgerGhost
    /\ InitSanitizerIdle
    /\ InitBagIdle
    /\ InitOther
    /\ pathsInput \in Batches
    /\ pathsResult = NoBatchResult

ValidatePaths ==
    /\ pathsResult' = validatePaths(fsLinks, fsFiles, pathsInput)
    /\ UNCHANGED <<limiterVars, now, calls, ghostVars, astVars, pathVars,
                   ledgerGhost, pathsInput, restVars, bagResult>>

NextBatch ==
    \/ ValidatePaths
    \/ \E target \in LinkTargets : Symlink(target)
    \/ Unlink
    \/ \E f \in FileCandidates : Touch(f)
    \/ \E f \in FileCandidates : Remove(f)

SpecBatch == InitBatch /\ [][NextBatch]_vars

----------------------------------------------------------------------------
(* SpecSanitizer: one validator of an InputSanitizer instance applied to  *)
(* an argument, then to its own return value                               *)

InitSanitizer ==
    /\ InitConstructed
    /\ InitScopedIdle
    /\ lastCall = Unobserved
    /\ InitLedgerGhost
    /\ InitBatchIdle
    /\ InitBagIdle
    /\ InitOther
    /\ sanitizer \in Sanitizers
    /\ sanInput \in SanInputs(MaxNameToks, MaxRegexToks)
    /\ sanInput.field = "regexPattern" =>
           sanitizer.allowedComponentNamePattern = "componentName"
    /\ sanResult = NoSanResult
    /\ sanAgain = NoSanResult

SanitizeFrame ==
    UNCHANGED <<limiterVars, now, calls, ghostVars, astVars, pathVars,
                ledgerGhost, batchVars, sanitizer, sanInput, params, bagResult,
                scopedVars>>

SanitizeComponentName ==
    /\ sanInput.field = "componentName"
    /\ \/ /\ ~sanResult.called
          /\ sanResult' = Raised(sanitizeComponentName(sanitizer, sanInput.arg))
          /\ UNCHANGED sanAgain
       \/ /\ sanResult.ok
          /\ ~sanAgain.called
          /\ sanAgain' =
                 Raised(sanitizeComponentName(sanitizer, Str(sanResult.value)))
          /\ UNCHANGED sanResult
    /\ SanitizeFrame

SanitizeRegexPattern ==
    /\ sanInput.field = "regexPattern"
    /\ \/ /\ ~sanResult.called
          /\ sanResult' = Raised(sanitizeRegexPattern(sanitizer, sanInput.arg))
          /\ UNCHANGED sanAgain
       \/ /\ sanResult.ok
          /\ ~sanAgain.called
          /\ sanAgain' =
                 Raised(sanitizeRegexPattern(sanitizer, Str(sanResult.value)))
          /\ UNCHANGED sanResult
    /\ SanitizeFrame

NextSanitizer == SanitizeComponentName \/ SanitizeRegexPattern

SpecSanitizer == InitSanitizer /\ [][NextSanitizer]_vars

----------------------------------------------------------------------------
(* SpecFields: each of the field validators on one argument: a text of up *)
(* to MaxNameToks tokens, or a value that is no string.  A regular        *)
(* expression is made of atoms and groups.  "stringPermitted" stands for  *)
(* sanitizeString called with allowDangerousPatterns.                     *)

FieldTokens == {"M", ".", " ", "/", "NUL", "<script>", "constructor", "("}
AtomTokens  == {"a", "constructor", "(", ")"}

Fields == {"componentName", "propName", "searchValue", "regexPattern",
           "globPattern", "string", "stringPermitted"}

FieldInputs ==
    {[field |-> f, arg |-> Str(q)] :
        f \in Fields \ {"regexPattern"},
        q \in SeqsUpTo(FieldTokens, MaxNameToks)}
    \cup {[field |-> "regexPattern", arg |-> Str(q)] :
        q \in SeqsUpTo(AtomTokens, MaxNameToks)}
    \cup {[field |-> f, arg |-> NotAString] : f \in Fields}

InitFields ==
    /\ InitConstructed
    /\ InitScopedIdle
    /\ lastCall = Unobserved
    /\ InitLedgerGhost
    /\ InitBatchIdle
    /\ InitBagIdle
    /\ InitOther
    /\ sanitizer \in {S \in Sanitizers :
                         S.allowedComponentNamePattern = "componentName"}
    /\ sanInput \in FieldInputs
    /\ sanResult = NoSanResult
    /\ sanAgain = NoSanResult

Sanitize(result) ==
    /\ ~sanResult.called
    /\ sanResult' = Raised(result)
    /\ UNCHANGED sanAgain
    /\ SanitizeFrame

SanitizePropName ==
    /\ sanInput.field = "propName"
    /\ Sanitize(sanitizePropName(sanitizer, sanInput.arg))

SanitizeSearchValue ==
    /\ sanInput.field = "searchValue"
    /\ Sanitize(sanitizeSearchValue(sanitizer, sanInput.arg))

SanitizeGlobPattern ==
    /\ sanInput.field = "globPattern"
    /\ Sanitize(sanitizeGlobPattern(sanitizer, sanInput.arg))

SanitizeString ==
    /\ sanInput.field \in {"string", "stringPermitted"}
    /\ Sanitize(IF sanInput.field = "string"
                THEN sanitizeString(sanitizer, sanInput.arg)
                ELSE sanitizeStringAllowing(sanitizer, sanInput.arg))

NextFields ==
    \/ SanitizeComponentName
    \/ SanitizePropName
    \/ SanitizeSearchValue
    \/ SanitizeRegexPattern
    \/ SanitizeGlobPattern
    \/ SanitizeString

SpecFields == InitFields /\ [][NextFields]_vars

----------------------------------------------------------------------------
(* SpecContext: validateAndSanitize of a security context on one          *)
(* parameter bag while the filesystem changes                              *)

InitContext ==
    /\ InitConstructed
    /\ InitScopedIdle
    /\ lastCall = Unobserved
    /\ InitLedgerGhost
    /\ InitBatchIdle
    /\ InitOther
    /\ sanitizer \in {S \in Sanitizers :
                         S.allowedComponentNamePattern = "componentName"}
    /\ sanInput = [field |-> "none", arg |-> NotAString]
    /\ sanResult = NoSanResult
    /\ sanAgain = NoSanResult
    /\ params \in Bags
    /\ bagResult = NoBagResult

ValidateAndSanitize ==
    /\ bagResult' = validateAndSanitize(sanitizer, fsLinks, fsFiles, params)
    /\ UNCHANGED <<limiterVars, now, calls, ghostVars, astVars, pathVars,
                   ledgerGhost, batchVars, restVars>>

NextContext ==
    \/ ValidateAndSanitize
    \/ \E target \in LinkTargets : Symlink(target)
    \/ Unlink
    \/ \E f \in FileCandidates : Touch(f)
    \/ \E f \in FileCandidates : Remove(f)

SpecContext == InitContext /\ [][NextContext]_vars

----------------------------------------------------------------------------
(* Properties                                                              *)

(* C1: in every reachable state the number of active operation            *)
(* identifiers is at most maxConcurrentOperations.                        *)
ConcurrencyCeiling ==
    Cardinality(currentOperations) <= maxConcurrentOperations

ConcurrencyCeilingWitness ==
    /\ Cardinality(currentOperations) = maxConcurrentOperations
    /\ \E c \in Calls : calls[c].pc = "parsed" /\ CallId(c) \in currentOperations
    /\ currentOperations \cap GenIds # {}

SuppliedDistinct ==
    \A i, j \in 1..Len(admissions) :
        (i < j /\ admissions[i].id \in SuppliedIds) =>
            admissions[i].id # admissions[j].id

ReleasedOnCompletion ==
    \A c \in Calls :
        calls[c].pc = "idle" =>
            /\ CallId(c) \notin currentOperations
            /\ CallId(c) \notin DOMAIN operationStartTimes

(* call 2 starts only after call 1, so call 1 has completed here *)
ReleasedOnCompletionWitness ==
    /\ calls[1].pc = "idle"
    /\ calls[2].pc = "parsed"
    /\ CallId(2) \in currentOperations
    /\ totalFilesProcessed > maxFileCount

(* C6 as stated: every failure of parseFile is a ParserError. *)
OnlyParserErrors ==
    (lastCall.op = "parseFile" /\ lastCall.err # NoError)
        => lastCall.err.name = "ParserError"

(* C7 as stated: a call whose underlying parse took longer than           *)
(* parseTimeout fails with PARSE_TIMEOUT.                                 *)
TimeoutWins ==
    (lastCall.op = "parseFile" /\ lastCall.parserCalls > 0
        /\ lastCall.parseDuration > parseTimeout)
        => lastCall.err.code = "PARSE_TIMEOUT"

(* C10 as stated: no step other than reset() decreases the processed-     *)
(* bytes counter, whatever size recordFileProcessed is given.             *)
BytesNeverDecrease ==
    [][lastCall'.op # "reset" => totalSizeProcessed' >= totalSizeProcessed]_vars

(* C10 amended: no step other than reset() and a recordFileProcessed call *)
(* with a negative size decreases the processed-bytes counter.            *)
BytesNeverDecreaseNonNegative ==
    [][(lastCall'.op # "reset"
        /\ ~(lastCall'.op = "recordFileProcessed" /\ lastCall'.size < 0))
       => totalSizeProcessed' >= totalSizeProcessed]_vars

BytesWitness ==
    /\ lastCall.op = "recordFileProcessed"
    /\ lastCall.size > 0
    /\ totalFilesProcessed > 1
    /\ totalSizeProcessed > lastCall.size

(* C8 as stated: validateAST from the default starting depth raises      *)
(* AST_TOO_DEEP with limit maxASTDepth and the observed depth on a tree   *)
(* nested deeper than maxASTDepth, and raises nothing on a tree within    *)
(* the depth and node-count ceilings.                                     *)
DeepTreeRaises ==
    (astResult.called /\ astResult.depth = 0 /\ IsTree(astInput)) =>
        /\ TreeDepth(astInput) > maxASTDepth =>
              /\ astResult.err.code = "AST_TOO_DEEP"
              /\ astResult.err.limit = maxASTDepth
              /\ astResult.err.current = TreeDepth(astInput)
        /\ (TreeDepth(astInput) <= maxASTDepth
             /\ TreeSize(astInput) <= maxASTNodes) => astResult.err = NoError

(* C9: the running node count of a walk never exceeds maxASTNodes + 1;    *)
(* the walk raises at the first counted node past the ceiling, with that  *)
(* count, and enters no node after it: it enters at most maxASTNodes      *)
(* nodes on every graph, cyclic ones included.                            *)
WalkBounded ==
    astResult.called =>
        /\ astResult.nodeCount <= maxASTNodes + 1
        /\ astResult.traversed <= maxASTNodes
        /\ astResult.traversed <= astResult.nodeCount
        /\ astResult.nodeCount > maxASTNodes =>
              /\ astResult.err.code = "AST_TOO_COMPLEX"
              /\ astResult.err.current = maxASTNodes + 1
              /\ astResult.traversed = maxASTNodes

WalkBoundedWitness ==
    /\ astResult.called
    /\ IsCyclic(astInput)
    /\ astResult.err.code = "AST_TOO_COMPLEX"
    /\ astResult.nodeCount = maxASTNodes + 1

(* C13 as stated: validatePath on a path that contains a NUL byte raises *)
(* INVALID_INPUT and makes no filesystem call.                            *)
NulPathInvalidInput ==
    (pathResult.called /\ HasNullByte(pathInput)) =>
        (pathResult.code = "INVALID_INPUT" /\ pathResult.fsCalls = 0)

(* C13 amended: validatePath on a path that contains a NUL byte raises    *)
(* NULL_BYTE_DETECTED, whatever its length, and makes no filesystem call  *)
(* (existsSync, lstatSync, realpathSync).                                 *)
NulPathRefused ==
    (pathResult.called /\ HasNullByte(pathInput)) =>
        (~pathResult.ok /\ pathResult.code = "NULL_BYTE_DETECTED"
            /\ pathResult.fsCalls = 0)

NulPathRefusedWitness ==
    /\ pathResult.called
    /\ HasNullByte(pathInput)
    /\ PathLength(pathInput) > maxPathLength
    /\ pathInput.resolveSymlinks /\ pathInput.requireExists
    /\ fsLinks # NoLinks
    /\ pathResult.code = "NULL_BYTE_DETECTED"

SizeGuardCodes ==
    {"CODE_TOO_LARGE", "FILE_TOO_LARGE", "TOTAL_SIZE_EXCEEDED", "FILE_ACCESS_ERROR"}

HasScriptTag(toks) == \E i \in 1..Len(toks) : toks[i] = "<script>"

(* the position of the parenthesis that opens the group closed at k *)
GroupStart(toks, k) ==
    CHOOSE o \in 1..k :
        /\ toks[o] = "("
        /\ Depth(toks, o - 1) = Depth(toks, k)
        /\ \A m \in o..(k - 1) : Depth(toks, m) > Depth(toks, k)

(* a quantified group whose body holds a quantifier; flat when the body   *)
(* holds no group                                                          *)
NestedQuantifierAt(toks, q, flat) ==
    /\ q > 1
    /\ toks[q] \in Quantifiers
    /\ toks[q - 1] = ")"
    /\ LET body == (GroupStart(toks, q - 1) + 1)..(q - 2)
       IN  /\ \E j \in body : toks[j] \in Quantifiers
           /\ flat => \A j \in body : toks[j] \notin {"(", ")"}

NestedQuantifier(toks) ==
    RegExp(toks) /\ \E q \in 1..Len(toks) : NestedQuantifierAt(toks, q, FALSE)

FlatNestedQuantifier(toks) ==
    RegExp(toks) /\ \E q \in 1..Len(toks) : NestedQuantifierAt(toks, q, TRUE)

RootDirForm ==
    symlinkStep(fsLinks, fsFiles, TRUE, resolve(normalize(params.rootDir)))

RootDirOutside == \A root \in allowedRoots : ~IsPrefix(root, RootDirForm)

NamesValid ==
    /\ sanitizeComponentName(sanitizer, params.componentName).ok
    /\ sanitizePropName(sanitizer, params.propName).ok
    /\ params.flags = "boolean"

RECURSIVE PathsWhere(_, _, _)
PathsWhere(batch, i, accepted) ==
    IF i > Len(batch.paths) THEN <<>>
    ELSE LET ok == validatePath(fsLinks, fsFiles, PathOf(batch, i)).ok
         IN  (IF ok = accepted THEN <<batch.paths[i]>> ELSE <<>>)
                 \o PathsWhere(batch, i + 1, accepted)

(* C15: validatePaths does not raise; valid holds, in input order, one    *)
(* entry per path that validatePath accepts, with the path it returns,    *)
(* and invalid and errors hold, in input order, one entry per path that   *)
(* validatePath rejects, whatever precedes it in the batch.               *)
BatchPartition ==
    pathsResult.called =>
        /\ ~pathsResult.raised
        /\ [i \in 1..Len(pathsResult.valid) |-> pathsResult.valid[i].original]
              = PathsWhere(pathsInput, 1, TRUE)
        /\ \A i \in 1..Len(pathsResult.valid) :
              pathsResult.valid[i].validated =
                  validatePath(fsLinks, fsFiles,
                      PathWith(pathsInput, pathsResult.valid[i].original)).path
        /\ pathsResult.invalid = PathsWhere(pathsInput, 1, FALSE)
        /\ [i \in 1..Len(pathsResult.errors) |-> pathsResult.errors[i].path]
              = PathsWhere(pathsInput, 1, FALSE)
        /\ Len(pathsResult.valid) + Len(pathsResult.invalid)
              = Len(pathsInput.paths)

BatchPartitionWitness ==
    /\ pathsResult.called
    /\ Len(pathsInput.paths) = MaxBatch
    /\ pathsResult.invalid # <<>>
    /\ pathsResult.valid # <<>>
    /\ pathsResult.invalid[1] = pathsInput.paths[1]
    /\ pathsResult.valid[1].original = pathsInput.paths[MaxBatch]
    /\ fsLinks # NoLinks

(* The object graph below the argument, whatever its members carry: the  *)
(* objects reachable through any member, whether they form a tree, and    *)
(* the number of member steps from the argument down to an object.        *)
RECURSIVE MembersFrom(_, _, _)
MembersFrom(g, seen, fuel) ==
    LET more == seen \cup UNION {g.kids[n] : n \in seen}
    IN  IF fuel = 0 \/ more = seen THEN seen ELSE MembersFrom(g, more, fuel - 1)

Objects(g) == MembersFrom(g, {1}, Cardinality(DOMAIN g.kids))

IsObjectTree(g) ==
    /\ \A n \in Objects(g) : 1 \notin g.kids[n]
    /\ \A k \in Objects(g) \ {1} :
          Cardinality({n \in Objects(g) : k \in g.kids[n]}) = 1

RECURSIVE Level(_, _, _)
Level(g, n, fuel) ==
    IF n = 1 \/ fuel = 0 THEN 0
    ELSE 1 + Level(g, CHOOSE m \in Objects(g) : n \in g.kids[m], fuel - 1)

KindNodes(g) == {n \in Objects(g) : g.typed[n]}

DeepestKind(g) ==
    LET levels == {Level(g, n, Cardinality(DOMAIN g.kids)) : n \in KindNodes(g)}
    IN  CHOOSE d \in levels : \A e \in levels : e <= d

(* C19 as stated: on a tree under the ceilings, the nodeCount that        *)
(* validateAST returns is the number of nodes that carry a 'type' field   *)
(* and the maxDepth it returns is the depth of the deepest such node.     *)
StatsMatchStructure ==
    (astResult.called /\ astResult.depth = 0 /\ IsObjectTree(astInput)
        /\ Cardinality(KindNodes(astInput)) <= maxASTNodes
        /\ DeepestKind(astInput) <= maxASTDepth)
        => /\ astResult.err = NoError
           /\ astResult.nodeCount = Cardinality(KindNodes(astInput))
           /\ astResult.maxDepth = DeepestKind(astInput)

(* C12 as stated: a parseFile call on a text that contains a NUL byte and *)
(* is within the size ceiling fails with a ParserError, and the           *)
(* underlying parser was not invoked during the call.                     *)
NulNeverParsed ==
    (lastCall.op = "parseFile" /\ lastCall.text = "nul"
        /\ lastCall.size <= maxFileSize)
        => (lastCall.err.name = "ParserError" /\ lastCall.parserCalls = 0)

RECURSIVE SumSizes(_)
SumSizes(records) ==
    IF records = <<>> THEN 0
    ELSE Head(records).size + SumSizes(Tail(records))

(* C11: counting from counters at zero, a recordFileProcessed call        *)
(* succeeds exactly when it is among the first maxFileCount calls, and    *)
(* the one after them raises TOO_MANY_FILES; while every call so far has  *)
(* succeeded the processed-bytes counter is the sum of their sizes; just  *)
(* after reset() the files and bytes counters are 0.                      *)
RecordCeiling ==
    /\ \A i \in 1..Len(fileRecords) : fileRecords[i].ok <=> i <= maxFileCount
    /\ (lastCall.op = "recordFileProcessed" /\ Len(fileRecords) > maxFileCount)
          => (lastCall.err.name = "ResourceLimitError"
              /\ lastCall.err.code = "TOO_MANY_FILES")
    /\ Len(fileRecords) <= maxFileCount
          => totalSizeProcessed = SumSizes(fileRecords)
    /\ lastCall.op = "reset" => (totalFilesProcessed = 0 /\ totalSizeProcessed = 0)

RecordCeilingWitness ==
    /\ discarded.reset
    /\ discarded.files = maxFileCount
    /\ discarded.bytes > MaxSize
    /\ Len(fileRecords) = maxFileCount + 1
    /\ ~fileRecords[maxFileCount + 1].ok
    /\ lastCall.err.code = "TOO_MANY_FILES"

(* C20: reset() leaves the files, bytes and directories counters at 0 and *)
(* the active set and the start times as they were; an operation that is  *)
(* active when reset() returns is released by the endOperation that       *)
(* follows.                                                               *)
ResetFrame ==
    /\ [][lastCall'.op = "reset" =>
            /\ totalFilesProcessed' = 0
            /\ totalSizeProcessed' = 0
            /\ directoriesScanned' = 0
            /\ currentOperations' = currentOperations
            /\ operationStartTimes' = operationStartTimes]_vars
    /\ [][(lastCall.op = "reset" /\ lastCall'.op = "endOperation"
            /\ lastCall'.id \in currentOperations)
          => (currentOperations' = currentOperations \ {lastCall'.id}
              /\ lastCall'.id \notin DOMAIN operationStartTimes')]_vars

ResetFrameWitness ==
    /\ lastCall.op = "reset"
    /\ discarded.reset
    /\ discarded.files > 0
    /\ discarded.bytes > 0
    /\ discarded.dirs > 0
    /\ Cardinality(currentOperations) = maxConcurrentOperations

(* the resolved form of the input: normalized, made absolute, and put    *)
(* through the symbolic-link step                                         *)
ResolvedForm ==
    symlinkStep(fsLinks, fsFiles, pathInput.resolveSymlinks,
                resolve(normalize(pathInput)))

WellFormedInput ==
    pathResult.code \notin {"INVALID_INPUT", "NULL_BYTE_DETECTED", "PATH_TOO_LONG"}

(* C4 as stated: the location a returned path leads to, links followed in *)
(* every component, lies inside an allowed root.                          *)
RealLocationContained ==
    (pathResult.called /\ pathResult.ok /\ pathInput.resolveSymlinks) =>
        \E root \in allowedRoots :
            IsPrefix(root, RealLocation(fsLinks, fsFiles, pathResult.path))

(* C5: an input whose resolved form has no allowed root as a prefix is    *)
(* refused with PATH_TRAVERSAL_DETECTED, and a returned path has an       *)
(* allowed root from which its relative path neither begins with '..'     *)
(* nor is absolute.                                                       *)
OutsideIsRefused ==
    (pathResult.called /\ WellFormedInput) =>
        /\ (\A root \in allowedRoots : ~IsPrefix(root, ResolvedForm))
              => pathResult.code = "PATH_TRAVERSAL_DETECTED"
        /\ pathResult.ok =>
              \E root \in allowedRoots :
                  /\ pathResult.path = ResolvedForm
                  /\ IsPrefix(root, pathResult.path)
                  /\ ~startsWithDotDot(relative(root, pathResult.path))
                  /\ ~relative(root, pathResult.path).abs

OutsideIsRefusedWitness ==
    /\ pathResult.called
    /\ pathResult.code = "PATH_TRAVERSAL_DETECTED"
    /\ fsLinks # NoLinks
    /\ ResolvedForm # resolve(normalize(pathInput))

----------------------------------------------------------------------------
(* The limiter's lifecycle, checked under SpecLifecycle.                  *)

(* C21: destroy() can be called any number of times in any state: every   *)
(* call returns without an error and leaves the sampler stopped and the   *)
(* active set and the start-time map empty, and a destroy() that follows  *)
(* a destroy() leaves every limiter field as it was.                      *)
DestroyIsIdempotent ==
    [][lastCall'.op = "destroy" =>
          /\ lastCall'.err = NoError
          /\ ~memoryCheckTimer'
          /\ currentOperations' = {}
          /\ operationStartTimes' = EmptyMap
          /\ (lastCall.op = "destroy" => UNCHANGED limiterVars)]_vars

DestroyIsIdempotentWitness ==
    /\ lastCall.op = "destroy"
    /\ lastCall.size = 2
    /\ totalFilesProcessed > 0

(* C22 as stated: after destroy() the whole ledger is cleared: the active *)
(* set and the start-time map are empty and the files, bytes and          *)
(* directories counters are 0.                                            *)
DestroyClearsLedger ==
    lastCall.op = "destroy" =>
        /\ currentOperations = {}
        /\ operationStartTimes = EmptyMap
        /\ totalFilesProcessed = 0
        /\ totalSizeProcessed = 0
        /\ directoriesScanned = 0

(* C24: checkFileSize changes no ledger field, whether it returns true or *)
(* raises.                                                                *)
CheckFileSizeFrame ==
    [][lastCall'.op = "checkFileSize" => UNCHANGED limiterVars]_vars

CheckFileSizeFrameWitness ==
    /\ lastCall.op = "checkFileSize"
    /\ lastCall.err.code = "TOTAL_SIZE_EXCEEDED"
    /\ lastCall.size > 0
    /\ currentOperations # {}

ElapsedSinceAdmission(operationId) ==
    IF operationId \in DOMAIN operationStartTimes
    THEN now - operationStartTimes[operationId]
    ELSE 0

(* C25: checkOperationTimeout(id) raises, with OPERATION_TIMEOUT, exactly *)
(* when id is active and more than maxProcessingTime has passed since its *)
(* admission, and it changes no limiter field in either outcome, so the   *)
(* operation still holds its slot.                                        *)
TimeoutCheckOnlyReports ==
    /\ [](lastCall.op = "checkOperationTimeout" =>
            /\ (lastCall.err # NoError) <=>
                  /\ lastCall.wasActive
                  /\ ElapsedSinceAdmission(lastCall.id) > maxProcessingTime
            /\ lastCall.err # NoError =>
                  /\ lastCall.err.code = "OPERATION_TIMEOUT"
                  /\ lastCall.id \in currentOperations)
    /\ [][lastCall'.op = "checkOperationTimeout" =>
              UNCHANGED limiterVars]_vars

TimeoutCheckOnlyReportsWitness ==
    /\ lastCall.op = "checkOperationTimeout"
    /\ lastCall.err.code = "OPERATION_TIMEOUT"
    /\ lastCall.id \in currentOperations
    /\ Cardinality(currentOperations) = maxConcurrentOperations

(* C27: startOperation at the concurrency ceiling fails at once with      *)
(* TOO_MANY_OPERATIONS: it changes no limiter field and emits no          *)
(* notification, nothing is left pending, and an endOperation admits      *)
(* nothing: the active set and the start-time map only shrink.            *)
RefusedAtCeiling ==
    /\ [][(/\ lastCall'.op = "startOperation"
           /\ Cardinality(currentOperations) >= maxConcurrentOperations) =>
              /\ lastCall'.err.code = "TOO_MANY_OPERATIONS"
              /\ lastCall'.event = "none"
              /\ UNCHANGED <<limiterVars, calls>>]_vars
    /\ [][lastCall'.op = "endOperation" =>
              /\ currentOperations' \subseteq currentOperations
              /\ DOMAIN operationStartTimes' \subseteq
                     DOMAIN operationStartTimes
              /\ lastCall'.event # "operationStarted"]_vars

RefusedAtCeilingWitness ==
    /\ lastCall.op = "startOperation"
    /\ lastCall.err.code = "TOO_MANY_OPERATIONS"
    /\ lastCall.id \notin currentOperations
    /\ Cardinality(currentOperations) = maxConcurrentOperations
    /\ now > 1

(* C26: a tick of the memory sampler, wherever it falls between the steps *)
(* of the other operations, changes no limiter field and no in-flight     *)
(* call, raises nothing, and emits memoryLimitExceeded exactly when the   *)
(* sampled heap is above maxMemoryUsage.                                  *)
SamplerOnlyNotifies ==
    [][lastCall'.op = "memoryCheck" =>
          /\ UNCHANGED <<limiterVars, calls>>
          /\ lastCall'.err = NoError
          /\ lastCall'.event = IF lastCall'.size > maxMemoryUsage
                               THEN "memoryLimitExceeded" ELSE "none"]_vars

SamplerOnlyNotifiesWitness ==
    /\ lastCall.op = "memoryCheck"
    /\ lastCall.event = "memoryLimitExceeded"
    /\ calls[1].pc = "parsed"
    /\ totalFilesProcessed > 0

(* C23 as stated: in the limiter createScoped(overrides) returned, every  *)
(* ceiling equals the override when one is given, whatever its value, and *)
(* the parent's ceiling otherwise.                                        *)
ScopedCeilingsAsGiven ==
    scoped.created =>
        \A n \in CeilingNames :
            scoped.limits[n] = IF n \in DOMAIN scopedLimits
                               THEN scopedLimits[n] ELSE Limits[n]

(* C28 as stated: every field validator refuses a string that holds a    *)
(* deny-listed shape, unless the call permits it.                         *)
EveryFieldScansDenyList ==
    (/\ sanResult.called
     /\ sanInput.arg.isString
     /\ containsDangerousPatterns(sanInput.arg.toks)
     /\ sanInput.field # "stringPermitted") => ~sanResult.ok

----------------------------------------------------------------------------
(* The stages of one parseFile call, checked under SpecCall.              *)

StageOrder == <<"Admission", "SizeCheck", "SafetyPrecheck", "Parse",
                "StructureValidate", "RecordSuccess">>

(* the stage that raises an error of parseFile *)
FailedStage(err) ==
    CASE err.code = "TOO_MANY_OPERATIONS" -> "Admission"
      [] err.code = "RESOURCE_LIMIT_EXCEEDED"
         /\ err.cause \in {"CODE_TOO_LARGE", "FILE_TOO_LARGE",
                           "TOTAL_SIZE_EXCEEDED", "FILE_ACCESS_ERROR"}
            -> "SizeCheck"
      [] err.code \in {"NULL_BYTES_DETECTED", "LINE_TOO_LONG"}
            -> "SafetyPrecheck"
      [] err.code \in {"PARSE_FAILED", "PARSE_FAILED_RETRY", "PARSE_TIMEOUT"}
            -> "Parse"
      [] err.code = "RESOURCE_LIMIT_EXCEEDED"
         /\ err.cause \in {"AST_TOO_DEEP", "AST_TOO_COMPLEX"}
            -> "StructureValidate"
      [] err.code = "RESOURCE_LIMIT_EXCEEDED"
         /\ err.cause \in {"TOO_MANY_FILES"}
            -> "RecordSuccess"
      [] OTHER -> "none"

(* C29: the stages a parseFile call enters are an initial part of         *)
(* admission, SizeCheck, SafetyPrecheck, Parse, StructureValidate,        *)
(* RecordSuccess, in that order: a call that returns entered all of them, *)
(* a call that fails entered none after the stage that raised its error,  *)
(* and the parser runs, at most twice, only in a call that passed the     *)
(* size check and whose text passed the safety precheck.                  *)
StagesInOrder ==
    /\ \A c \in Calls :
          /\ IsPrefix(calls[c].stages, StageOrder)
          /\ calls[c].pc = "checkFileSize" =>
                 calls[c].stages = SubSeq(StageOrder, 1, 2)
          /\ calls[c].pc = "parsed" =>
                 calls[c].stages = SubSeq(StageOrder, 1, 4)
    /\ lastCall.op = "parseFile" =>
          /\ lastCall.stages # <<>>
          /\ IsPrefix(lastCall.stages, StageOrder)
          /\ lastCall.err = NoError => lastCall.stages = StageOrder
          /\ lastCall.err # NoError =>
                 lastCall.stages[Len(lastCall.stages)] =
                     FailedStage(lastCall.err)
          /\ lastCall.text \in {"nul", "longLine"} =>
                 Len(lastCall.stages) <= 3
          /\ (lastCall.parserCalls > 0) <=> (Len(lastCall.stages) >= 4)
          /\ lastCall.parserCalls <= 2

StagesInOrderWitness ==
    /\ lastCall.op = "parseFile"
    /\ FailedStage(lastCall.err) = "StructureValidate"
    /\ lastCall.stages = SubSeq(StageOrder, 1, 5)
    /\ lastCall.parserCalls = 2

(* C30: one parseFile call invokes the parser at most twice; the second   *)
(* invocation is made only after the first one failed and the failure was *)
(* classified as recoverable; a first failure classified otherwise ends   *)
(* the call with PARSE_FAILED after one invocation, and a failure of the  *)
(* second invocation ends it with PARSE_FAILED_RETRY.                     *)
AtMostOneRetry ==
    lastCall.op = "parseFile" =>
        /\ lastCall.parserCalls = Len(lastCall.invocations)
        /\ Len(lastCall.invocations) <= 2
        /\ Len(lastCall.invocations) = 2 =>
              /\ lastCall.invocations[1] = "throw"
              /\ lastCall.recoverable
        /\ (/\ Len(lastCall.invocations) >= 1
            /\ lastCall.invocations[1] = "throw"
            /\ ~lastCall.recoverable) =>
              /\ Len(lastCall.invocations) = 1
              /\ lastCall.err.code = "PARSE_FAILED"
        /\ (/\ Len(lastCall.invocations) = 2
            /\ lastCall.invocations[2] = "throw") =>
              lastCall.err.code = "PARSE_FAILED_RETRY"

AtMostOneRetryWitness ==
    /\ lastCall.op = "parseFile"
    /\ lastCall.invocations = <<"throw", "throw">>
    /\ lastCall.err.code = "PARSE_FAILED_RETRY"

(* C31 as stated: one parseFile call invokes the parser at most           *)
(* maxParseAttempts times.                                                *)
ParserCallsWithinAttempts ==
    lastCall.op = "parseFile" => lastCall.parserCalls <= maxParseAttempts

(* C32: every recordFileProcessed call adds one to the files counter and  *)
(* its size to the bytes counter, and raises TOO_MANY_FILES exactly when  *)
(* the files counter is then above maxFileCount: the call that crosses    *)
(* the ceiling leaves the counter at maxFileCount + 1, and every later    *)
(* call before a reset raises again and still increases both counters.    *)
CrossingCallIsCounted ==
    [][lastCall'.op = "recordFileProcessed" =>
          /\ totalFilesProcessed' = totalFilesProcessed + 1
          /\ totalSizeProcessed' = totalSizeProcessed + lastCall'.size
          /\ (lastCall'.err # NoError) <=>
                 (totalFilesProcessed >= maxFileCount)
          /\ lastCall'.err # NoError =>
                 /\ lastCall'.err.code = "TOO_MANY_FILES"
                 /\ lastCall'.err.current = totalFilesProcessed + 1]_vars

CrossingCallIsCountedWitness ==
    /\ lastCall.op = "recordFileProcessed"
    /\ lastCall.err.code = "TOO_MANY_FILES"
    /\ lastCall.size > 0
    /\ totalFilesProcessed = maxFileCount + MaxOverrun

(* C33 as stated: after any interleaving of parseFile calls that share    *)
(* one limiter, the processed-bytes counter is at most maxTotalFileSize.  *)
BytesWithinTotal ==
    totalSizeProcessed <= maxTotalFileSize

(* C34: after every startOperation, endOperation, reset and destroy, in   *)
(* any order and with any identifier, the identifiers that have a start   *)
(* time recorded are the active identifiers.                              *)
StartTimesMatchActive ==
    DOMAIN operationStartTimes = currentOperations

StartTimesMatchActiveWitness ==
    /\ lastCall.op = "endOperation"
    /\ lastCall.wasActive
    /\ Cardinality(currentOperations) = maxConcurrentOperations - 1
    /\ totalFilesProcessed > 0

(* C35: endOperation with an identifier that is not active changes no     *)
(* limiter field, so it frees no slot, and emits nothing.                 *)
ReleaseOfInactiveIsNoOp ==
    [][(lastCall'.op = "endOperation" /\ ~lastCall'.wasActive) =>
          /\ UNCHANGED limiterVars
          /\ lastCall'.event = "none"]_vars

ReleaseOfInactiveIsNoOpWitness ==
    /\ lastCall.op = "endOperation"
    /\ ~lastCall.wasActive
    /\ lastCall.id \in GenIds
    /\ Cardinality(currentOperations) = maxConcurrentOperations

(* C36: a parseFile call changes the files and bytes counters only in the *)
(* step that enters RecordSuccess, where it adds one file and the length  *)
(* of the source text; a call that fails at admission, SizeCheck,         *)
(* SafetyPrecheck, Parse or StructureValidate leaves both as they were,   *)
(* and so does every step of a call that is still in flight.              *)
CountersMoveAtRecordSuccess ==
    /\ [][lastCall'.op = "parseFile" =>
             IF Len(lastCall'.stages) = Len(StageOrder)
             THEN /\ totalFilesProcessed' = totalFilesProcessed + 1
                  /\ totalSizeProcessed' =
                         totalSizeProcessed + lastCall'.size
             ELSE UNCHANGED <<totalFilesProcessed, totalSizeProcessed>>]_vars
    /\ [][lastCall'.op = "none" =>
             UNCHANGED <<totalFilesProcessed, totalSizeProcessed>>]_vars

CountersMoveAtRecordSuccessWitness ==
    /\ lastCall.op = "parseFile"
    /\ FailedStage(lastCall.err) = "Parse"
    /\ lastCall.parserCalls = 2
    /\ totalFilesProcessed = 1
    /\ totalSizeProcessed > 0

(* C37: the object sanitizeAnalyzeParams returns has the three required   *)
(* properties, propValue when one was given, and the flags that were      *)
(* given, and no other property of the input; each string it holds is     *)
(* accepted by the validator of its field, propValue by                   *)
(* sanitizePropValue, and each flag is the boolean that was given.        *)
OnlyKnownFieldsReturned ==
    (bagResult.called /\ bagResult.ok) =>
        LET out == bagResult.sanitized
        IN  /\ DOMAIN out \subseteq KnownFields
            /\ DOMAIN out = AssignedFields(params)
            /\ sanitizeString(sanitizer, Argument(out.rootDir)).ok
            /\ sanitizeComponentName(sanitizer, Argument(out.componentName)).ok
            /\ sanitizePropName(sanitizer, Argument(out.propName)).ok
            /\ "propValue" \in DOMAIN out =>
                   sanitizePropValue(sanitizer, out.propValue).ok
            /\ \A f \in FlagFields \cap DOMAIN out :
                   out[f].type = "boolean" /\ out[f] = params[f]

OnlyKnownFieldsReturnedWitness ==
    /\ bagResult.called
    /\ bagResult.ok
    /\ params.callback # Undefined
    /\ params.propValue.type = "array"
    /\ params.rootDir # bagResult.sanitized.rootDir
    /\ "findMissing" \in DOMAIN bagResult.sanitized

----------------------------------------------------------------------------
(* Containment and existence, checked under SpecPath.                     *)

LexicalForm == resolve(normalize(pathInput))

(* the filesystem with the existence of the path f flipped *)
Flipped(files, f) == IF f \in files THEN files \ {f} ELSE files \cup {f}

(* C38: for a path that is not a symbolic link and lies outside every     *)
(* allowed root, the outcome is PATH_TRAVERSAL_DETECTED both in the       *)
(* filesystem as it is and in the one that differs only in whether the    *)
(* path exists, also when existence is required.                          *)
OutsideRefusedWhetherItExists ==
    (/\ pathResult.called /\ WellFormedInput
     /\ LexicalForm \in FileCandidates
     /\ ~isSymbolicLink(fsLinks, fsFiles, LexicalForm)
     /\ \A root \in allowedRoots : ~IsPrefix(root, LexicalForm)) =>
        /\ pathResult.code = "PATH_TRAVERSAL_DETECTED"
        /\ validatePath(fsLinks, Flipped(fsFiles, LexicalForm), pathInput).code
              = pathResult.code

OutsideRefusedWhetherItExistsWitness ==
    /\ pathResult.called
    /\ pathInput.requireExists
    /\ LexicalForm = <<"o", "a">>
    /\ LexicalForm \notin fsFiles
    /\ pathResult.code = "PATH_TRAVERSAL_DETECTED"

(* C39 as stated: a path that lies inside an allowed root is never        *)
(* refused with PATH_TRAVERSAL_DETECTED, also when the first component    *)
(* below the root begins with two dots.                                   *)
InsideIsNeverTraversal ==
    (/\ pathResult.called /\ WellFormedInput
     /\ \E root \in allowedRoots : IsPrefix(root, ResolvedForm)) =>
        pathResult.code # "PATH_TRAVERSAL_DETECTED"

====
